---- MODULE Spec2Model ----
(***************************************************************************)
(* SimpleChart (src/zRef/SimpleChart.tsx): the series registries of the    *)
(* chart component and the reactions (React effects) that maintain them.   *)
(*                                                                         *)
(* One action is one reaction: a change of one prop, followed by every     *)
(* effect whose dependency list holds a value that changed, in the order   *)
(* the effects are declared.  The effects are operators on a record m that *)
(* carries the chart and the three registries through the handler.         *)
(*                                                                         *)
(* Strings that the code takes apart (instrument ids, symbols, registry    *)
(* keys) are sequences of atoms, so that `${CA}:${symbol}` and split(':')  *)
(* are computed, not assumed.  A JS Map is a sequence of [k, v] entries in *)
(* insertion order.  addSeries returns a handle that no registry and no     *)
(* chart holds, and that none held when the reaction began: a handle is    *)
(* compared only with the handles of the same reaction and of the state    *)
(* before it.                                                              *)
(***************************************************************************)
EXTENDS Integers, Sequences, FiniteSets, TLC

VARIABLES
    \* props
    data, chartType, visibleTokens, tokenColors, tokenColorsByCA,
    tokenLineWeights, statisticalBandConfig, sliderPosition, proximityMode,
    proximityIndicatorData,
    \* refs and the chart behind chartRef
    phase, chartRef, chart, seriesRefs, tokenIndicatorSeriesRefs, tokenMarkersRefs,
    \* observation of the last reaction
    lastReaction, calls, error,
    \* the persisted band configuration and the last call that resolved it
    storage, parsedConfig, resolved, saved,
    \* the tooltip's show state, the item stored for it, and the storage
    \* calls of the last step
    showTooltip, tooltipStored, storageCalls,
    \* the last call of the band calculator: its arguments and its result
    bandArgs, bandOutput

props == <<data, chartType, visibleTokens, tokenColors, tokenColorsByCA,
           tokenLineWeights, statisticalBandConfig, sliderPosition, proximityMode,
           proximityIndicatorData>>

refs == <<phase, chartRef, chart, seriesRefs, tokenIndicatorSeriesRefs, tokenMarkersRefs>>

chartVars == <<props, refs, lastReaction, calls, error>>

configVars == <<storage, parsedConfig, resolved, saved, showTooltip, tooltipStored, storageCalls>>

bandVars == <<bandArgs, bandOutput>>

vars == <<chartVars, configVars, bandVars>>

----------------------------------------------------------------------------
(* Bounds and inputs *)

\* Timestamps of the data batches run over 1..MaxTime.
MaxTime == 2

CAs == {<<"A">>, <<"B">>}

CAOrder == << <<"A">>, <<"B">> >>

SymbolOf(ca) == IF ca = <<"A">> THEN <<"SA">> ELSE <<"SB">>

PriceOf(ca) == IF ca = <<"A">> THEN 10 ELSE 20

Point(ca, t) ==
    [CA |-> ca, symbol |-> SymbolOf(ca), timestamp |-> t,
     open |-> PriceOf(ca) + t, high |-> PriceOf(ca) + t + 2,
     low |-> PriceOf(ca) + t - 1, close |-> PriceOf(ca) + t + 1]

RECURSIVE Flatten(_)
Flatten(ss) == IF ss = <<>> THEN <<>> ELSE Head(ss) \o Flatten(Tail(ss))

\* A batch: the instruments of S, each with one point per timestamp 1..n,
\* in timestamp order.
Batch(S, n) ==
    Flatten([t \in 1..n |->
        SelectSeq([i \in 1..Len(CAOrder) |-> Point(CAOrder[i], t)],
                  LAMBDA d : d.CA \in S)])

\* The batches the parent passes: no point at all, A alone, and A and B
\* over a growing range of timestamps.
DataSets == {<<>>, Batch({<<"A">>}, 1)} \cup {Batch(CAs, n) : n \in 1..MaxTime}

ChartTypes == {"line", "candlestick", "ohlc"}

\* visibleTokens, as Array.from(visibleTokens) lists it: the parent keeps
\* the instruments in the order of its token list.
VisibleSets == {SelectSeq(CAOrder, LAMBDA c : c \in S) : S \in SUBSET CAs}

EmptyObject == [k \in {} |-> ""]

\* tokenColorsByCA and tokenColors as the parent passes them: both empty,
\* or a colour for A by its CA and one for B by its symbol.
TokenColorSettings ==
    { [byCA |-> EmptyObject, bySymbol |-> EmptyObject],
      [byCA |-> [k \in {<<"A">>} |-> "#ff0000"],
       bySymbol |-> [k \in {<<"SB">>} |-> "#00ff00"]] }

LineWeightMaps == {EmptyObject, [k \in {<<"A">>} |-> 3]}

SliderPositions == {0, 50}

ProximityModes == {"disabled", "enabled"}

stableTimestampRange == [minTimestamp |-> 1, maxTimestamp |-> MaxTime]

\* A point of instrument ca under the display symbol sym.
KeyPoint(ca, sym, t) == [Point(ca, t) EXCEPT !.symbol = sym]

\* The batches of the parent: A alone; A under two symbols; two instruments
\* whose identity and symbol hold a colon; an instrument whose identity is
\* the prefix of the band keys; A and B.
KeyDataSets ==
    {<<KeyPoint(<<"A">>, <<"SA">>, 1)>>,
     <<KeyPoint(<<"A">>, <<"SA">>, 1), KeyPoint(<<"A">>, <<"SB">>, 1)>>,
     <<KeyPoint(<<"A">>, <<"B", ":", "C">>, 1), KeyPoint(<<"A", ":", "B">>, <<"C">>, 1)>>,
     <<KeyPoint(<<"band_">>, <<"S">>, 1)>>,
     Batch(CAs, 1)}

\* visibleTokens at the first render: every instrument of the batches, or
\* A alone.
KeyVisibleSets ==
    {<< <<"A">>, <<"B">>, <<"A", ":", "B">>, <<"band_">> >>, << <<"A">> >>}

\* A point of instrument ca at timestamp t that closes at close.
RepeatPoint(ca, t, close) == [Point(ca, t) EXCEPT !.close = close]

\* The batches of a parent that repeats timestamps and does not sort: A at
\* 2, at 1 and again at 2; A three times at 1 with B in between; A and B in
\* descending order with B's point at 2 arriving again.
RepeatedDataSets ==
    {<<RepeatPoint(<<"A">>, 2, 7), Point(<<"A">>, 1), RepeatPoint(<<"A">>, 2, 9)>>,
     <<RepeatPoint(<<"A">>, 1, 5), Point(<<"B">>, 1), RepeatPoint(<<"A">>, 1, 6),
       RepeatPoint(<<"A">>, 1, 8)>>,
     <<Point(<<"B">>, 2), Point(<<"A">>, 2), Point(<<"B">>, 1), Point(<<"A">>, 1),
       RepeatPoint(<<"B">>, 2, 3)>>}

----------------------------------------------------------------------------
(* Strings and JS Maps *)

TokenKey(d) == d.CA \o <<":">> \o d.symbol

RECURSIVE SplitFrom(_, _)
SplitFrom(s, cur) ==
    IF s = <<>> THEN <<cur>>
    ELSE IF Head(s) = ":" THEN <<cur>> \o SplitFrom(Tail(s), <<>>)
    ELSE SplitFrom(Tail(s), Append(cur, Head(s)))

Split(s) == SplitFrom(s, <<>>)

StartsWithBand(k) == Len(k) > 0 /\ Head(k) = "band_"

MapHas(m, k) == \E i \in 1..Len(m) : m[i].k = k

MapGet(m, k) == m[CHOOSE i \in 1..Len(m) : m[i].k = k].v

MapSet(m, k, v) ==
    IF MapHas(m, k)
    THEN [i \in 1..Len(m) |-> IF m[i].k = k THEN [k |-> k, v |-> v] ELSE m[i]]
    ELSE Append(m, [k |-> k, v |-> v])

MapDelete(m, k) == SelectSeq(m, LAMBDA e : e.k # k)

MapKeys(m) == [i \in 1..Len(m) |-> m[i].k]

MapValues(m) == [i \in 1..Len(m) |-> m[i].v]

Range(s) == {s[i] : i \in 1..Len(s)}

Includes(s, x) == x \in Range(s)

----------------------------------------------------------------------------
(* The render collaborator (lightweight-charts), as the code uses it.       *)
(* m.chart maps each attached handle to its series; m.calls is the list of  *)
(* calls the reaction has made; m.old holds the handles that existed when   *)
(* the reaction began; m.thrown says that a call has thrown and nothing has *)
(* caught it yet.                                                           *)

\* The handle field of a call that is made on no series.
NoHandle == <<>>

Handles(reg) == Range(MapValues(reg))

Used(m) ==
    DOMAIN m.chart \cup Handles(m.seriesRefs) \cup Handles(m.ind)
        \cup Handles(m.markers) \cup m.old

\* The handles of one registry: the indicator series of an instrument, or
\* the series of seriesRefs.
Class(tag) == IF Head(tag) = "indicator" THEN tag ELSE <<"series">>

\* The identity of a newly created series object: one nothing else holds.
\* It is written <<tag, n>>: tag is the registry key the series is created
\* for, and n is the least number that no handle of the same registry
\* carried when the reaction began and that gives an identity not in use.
Fresh(m, tag) ==
    LET taken == {h[2] : h \in {g \in m.old : Class(g[1]) = Class(tag)}}
                    \cup {h[2] : h \in {g \in Used(m) : g[1] = tag}}
    IN  <<tag, CHOOSE n \in 0..Cardinality(taken) :
                  n \notin taken /\ \A g \in 0..(n - 1) : g \in taken>>

Log(m, call) == [m EXCEPT !.calls = Append(@, call)]

Attach(ch, h, s) == [g \in DOMAIN ch \cup {h} |-> IF g = h THEN s ELSE ch[g]]

Detach(ch, h) == [g \in DOMAIN ch \ {h} |-> ch[g]]

\* chart.addSeries(kind, options, paneIndex): m.ret is the handle returned.
AddSeries(m, tag, kind, options, pane) ==
    LET h == Fresh(m, tag)
        s == [kind |-> kind, pane |-> pane, options |-> options,
              data |-> <<>>, markers |-> <<>>]
    IN  [Log(m, [op |-> "addSeries", h |-> h]) EXCEPT
            !.chart = Attach(@, h, s), !.ret = h]

\* chart.removeSeries(series): throws when the chart does not hold it.
RemoveSeries(m, h) ==
    IF h \in DOMAIN m.chart
    THEN [Log(m, [op |-> "removeSeries", h |-> h]) EXCEPT !.chart = Detach(@, h)]
    ELSE [Log(m, [op |-> "removeSeries", h |-> h]) EXCEPT !.thrown = TRUE]

\* series.setData(points): replaces the data wholesale.
SetData(m, h, points) ==
    LET m1 == Log(m, [op |-> "setData", h |-> h])
    IN  IF h \in DOMAIN m.chart
        THEN [m1 EXCEPT !.chart[h].data = points]
        ELSE m1

\* chart.priceScale('right').applyOptions({ autoScale: false })
DisableAutoScale(m) == Log(m, [op |-> "priceScale.applyOptions", h |-> NoHandle])

\* markersHandle.setMarkers(list): replaces the markers wholesale.
SetMarkers(m, h, list) ==
    LET m1 == Log(m, [op |-> "setMarkers", h |-> h])
    IN  IF h \in DOMAIN m.chart
        THEN [m1 EXCEPT !.chart[h].markers = list]
        ELSE m1

\* createSeriesMarkers(series, []): the markers object of series h.
CreateSeriesMarkers(m, h) ==
    [Log(m, [op |-> "createSeriesMarkers", h |-> h]) EXCEPT !.ret = h]

\* chart.panes()[1]?.setHeight(40)
SetPaneHeight(m) ==
    IF \E h \in DOMAIN m.chart : m.chart[h].pane = 1
    THEN Log(m, [op |-> "pane.setHeight", h |-> NoHandle])
    ELSE m

----------------------------------------------------------------------------
(* Series options: the style state of a series *)

DefaultColor == "#2962ff"

DefaultIndicatorColor == "#333333"

TransparentColor == "rgba(0,0,0,0)"

DefaultLineWeight == 2

\* obj[k] || dflt, for a map of colours ('' and undefined are falsy)
ColorOr(obj, k, dflt) == IF k \in DOMAIN obj /\ obj[k] # "" THEN obj[k] ELSE dflt

\* obj[k] || dflt, for a map of numbers (0 and undefined are falsy)
NumberOr(obj, k, dflt) == IF k \in DOMAIN obj /\ obj[k] # 0 THEN obj[k] ELSE dflt

Part(parts, i) == IF i <= Len(parts) THEN parts[i] ELSE <<"undefined">>

\* tokenColorsByCA[ca] || tokenColors[symbol] || '#2962ff'
TokenColor(p, tokenKey) ==
    LET parts == Split(tokenKey)
    IN  ColorOr(p.tokenColorsByCA, Part(parts, 1),
                ColorOr(p.tokenColors, Part(parts, 2), DefaultColor))

\* tokenLineWeights[ca] || 2
TokenLineWeight(p, tokenKey) ==
    NumberOr(p.tokenLineWeights, Part(Split(tokenKey), 1), DefaultLineWeight)

\* The series class a chart type plots with.
SeriesKind(ct) ==
    CASE ct = "line" -> "Line"
      [] ct = "candlestick" -> "Candlestick"
      [] ct = "ohlc" -> "Bar"

\* The options the data effect creates a token's series with.
TokenSeriesOptions(p, tokenKey) ==
    CASE p.chartType = "line" ->
            [color |-> TokenColor(p, tokenKey),
             lineWidth |-> TokenLineWeight(p, tokenKey),
             lastValueVisible |-> FALSE, priceLineVisible |-> FALSE]
      [] p.chartType = "candlestick" ->
            [upColor |-> TokenColor(p, tokenKey),
             downColor |-> TokenColor(p, tokenKey),
             borderVisible |-> FALSE,
             wickUpColor |-> TokenColor(p, tokenKey),
             wickDownColor |-> TokenColor(p, tokenKey),
             lastValueVisible |-> FALSE, priceLineVisible |-> FALSE]
      [] p.chartType = "ohlc" ->
            [upColor |-> TokenColor(p, tokenKey),
             downColor |-> TokenColor(p, tokenKey),
             lastValueVisible |-> FALSE, priceLineVisible |-> FALSE]

\* visible-styled or transparent-styled, read off a series's options: a
\* series is hidden by giving it the transparent colour for every colour it
\* draws with.
StyleState(s) ==
    IF s.kind = "Line"
    THEN IF s.options.color = TransparentColor THEN "transparent" ELSE "visible"
    ELSE IF s.options.upColor = TransparentColor
            /\ s.options.downColor = TransparentColor
         THEN "transparent" ELSE "visible"

----------------------------------------------------------------------------
(* JavaScript numbers.  A number is a binary floating-point value: a        *)
(* fraction <<n, d>> in lowest terms whose significand has at most          *)
(* SignificandBits bits.  Every operation gives the exact result rounded    *)
(* to the nearest such value, ties to the even significand, as IEEE 754     *)
(* does with 53 bits.                                                       *)

SignificandBits == 6

Abs(i) == IF i < 0 THEN 0 - i ELSE i

RECURSIVE GCD(_, _)
GCD(a, b) == IF b = 0 THEN a ELSE GCD(b, a % b)

\* The fraction n/d in lowest terms, d > 0.
Fraction(n, d) ==
    LET g == GCD(Abs(n), Abs(d))
        s == IF d < 0 THEN 0 - 1 ELSE 1
    IN  <<(s * n) \div g, (s * d) \div g>>

\* The least e >= 0 with n / (d * base^e) < 2^SignificandBits.
RECURSIVE ScaleDown(_, _, _, _)
ScaleDown(n, d, base, e) ==
    IF n >= (2 ^ SignificandBits) * d * (base ^ e) THEN ScaleDown(n, d, base, e + 1)
    ELSE e

\* The least k >= 0 with n * base^k / d >= 2^(SignificandBits - 1).
RECURSIVE ScaleUp(_, _, _, _)
ScaleUp(n, d, base, k) ==
    IF n * (base ^ k) < (2 ^ (SignificandBits - 1)) * d THEN ScaleUp(n, d, base, k + 1)
    ELSE k

\* n/d to the nearest integer, ties to even; n >= 0, d > 0.
NearestEven(n, d) ==
    LET q == n \div d
        r == n % d
    IN  IF 2 * r > d \/ (2 * r = d /\ q % 2 = 1) THEN q + 1 ELSE q

\* s * a/d with its significand rounded to SignificandBits bits, where
\* a/d < 2^(SignificandBits + e) and a/d >= 2^(SignificandBits - 1 - k).
RoundScaled(s, a, d, e, k) ==
    IF e > 0 THEN Fraction(s * NearestEven(a, d * (2 ^ e)) * (2 ^ e), 1)
    ELSE Fraction(s * NearestEven(a * (2 ^ k), d), 2 ^ k)

\* The number nearest to the fraction n/d, d > 0.
Round(n, d) ==
    IF n = 0 THEN <<0, 1>>
    ELSE IF d = 1 /\ Abs(n) < 2 ^ SignificandBits THEN <<n, 1>>
    ELSE RoundScaled(IF n < 0 THEN 0 - 1 ELSE 1, Abs(n), d,
                     ScaleDown(Abs(n), d, 2, 0), ScaleUp(Abs(n), d, 2, 0))

Number(i) == Round(i, 1)

FAdd(x, y) == Round(x[1] * y[2] + y[1] * x[2], x[2] * y[2])

FSub(x, y) == Round(x[1] * y[2] - y[1] * x[2], x[2] * y[2])

FMul(x, y) == Round(x[1] * y[1], x[2] * y[2])

\* x / y, y not zero
FDiv(x, y) ==
    IF y[1] < 0 THEN Round((0 - x[1]) * y[2], x[2] * (0 - y[1]))
    ELSE Round(x[1] * y[2], x[2] * y[1])

\* The greatest integer m with m * m <= n / d, given lo * lo <= n / d < hi * hi.
RECURSIVE FloorSqrt(_, _, _, _)
FloorSqrt(n, d, lo, hi) ==
    IF hi - lo <= 1 THEN lo
    ELSE LET mid == (lo + hi) \div 2
         IN  IF mid * mid * d <= n THEN FloorSqrt(n, d, mid, hi)
             ELSE FloorSqrt(n, d, lo, mid)

\* The integer nearest to the square root of n/d, which lies between m and
\* m + 1: m + 1 when (m + 1/2)^2 < n/d, and a tie goes to the even one.
SqrtNearest(n, d, m) ==
    IF \/ (2 * m + 1) * (2 * m + 1) * d < 4 * n
       \/ ((2 * m + 1) * (2 * m + 1) * d = 4 * n /\ m % 2 = 1)
    THEN m + 1 ELSE m

\* The same, for 2^(2 * SignificandBits - 2) <= n/d < 2^(2 * SignificandBits).
SqrtInteger(n, d) ==
    SqrtNearest(n, d, FloorSqrt(n, d, 2 ^ (SignificandBits - 1), 2 ^ SignificandBits))

\* The square root of x with its significand rounded, where x / 4^e and
\* x * 4^k are in the range of SqrtInteger.
SqrtScaled(x, e, k) ==
    IF e > 0 THEN Fraction(SqrtInteger(x[1], x[2] * (4 ^ e)) * (2 ^ e), 1)
    ELSE Fraction(SqrtInteger(x[1] * (4 ^ k), x[2]), 2 ^ k)

\* Math.sqrt(x), x >= 0: the number nearest to the square root of x.
FSqrt(x) ==
    IF x[1] = 0 THEN <<0, 1>>
    ELSE SqrtScaled(x, ScaleDown(x[1], x[2] * (2 ^ SignificandBits), 4, 0),
                    ScaleUp(x[1], x[2] * (2 ^ (SignificandBits - 1)), 4, 0))

\* array.reduce((sum, x) => sum + x, 0)
RECURSIVE Sum(_)
Sum(xs) == IF xs = <<>> THEN <<0, 1>> ELSE FAdd(Sum(SubSeq(xs, 1, Len(xs) - 1)), xs[Len(xs)])

\* diff * diff
Square(diff) == FMul(diff, diff)

\* array.reduce((sum, x) => { const diff = x - mean; return sum + diff * diff }, 0)
RECURSIVE SumOfSquares(_, _)
SumOfSquares(xs, mean) ==
    IF xs = <<>> THEN <<0, 1>>
    ELSE FAdd(SumOfSquares(SubSeq(xs, 1, Len(xs) - 1), mean),
              Square(FSub(xs[Len(xs)], mean)))

----------------------------------------------------------------------------
(* Band configurations the parent may pass (statisticalBandConfig) *)

Level(en, sigmaValue, color, style) ==
    [enabled |-> en, sigmaValue |-> sigmaValue, color |-> color, lineWeight |-> 1,
     lineStyle |-> style]

\* defaultStatisticalBandConfig's sigma values, colours and styles;
\* band2..band4 switched off by the user.
BandLevels ==
    [mean |-> Level(TRUE, <<0, 1>>, "#ffffff", "dotted"),
     band1 |-> Level(TRUE, <<1, 1>>, "#4169e1", "solid"),
     band2 |-> Level(FALSE, <<2, 1>>, "#ff6b35", "solid"),
     band3 |-> Level(FALSE, <<5, 2>>, "#ffd23f", "solid"),
     band4 |-> Level(FALSE, <<3, 1>>, "#ee4266", "solid")]

BandConfig(en, vwap) ==
    [enabled |-> en, useVwapStyle |-> vwap, levels |-> BandLevels,
     showFilledAreas |-> TRUE]

BandConfigs == {BandConfig(FALSE, FALSE), BandConfig(TRUE, FALSE), BandConfig(TRUE, TRUE)}

----------------------------------------------------------------------------
(* filteredData (useMemo) and the conversions of the data effect *)

\* ../utils/dataTransform is not part of the sources at hand: in absolute
\* price mode the points pass through.
applyDataTransformation(p) == p.data

filteredData(p) ==
    IF Len(p.data) = 0 \/ Len(p.visibleTokens) = 0 THEN <<>>
    ELSE SelectSeq(applyDataTransformation(p),
                   LAMBDA d : Includes(p.visibleTokens, d.CA))

\* dataByToken: Map from `${d.CA}:${d.symbol}` to the token's points.
RECURSIVE GroupByToken(_, _)
GroupByToken(fd, acc) ==
    IF fd = <<>> THEN acc
    ELSE LET d == Head(fd)
             key == TokenKey(d)
         IN  GroupByToken(Tail(fd),
                 IF MapHas(acc, key)
                 THEN MapSet(acc, key, Append(MapGet(acc, key), d))
                 ELSE MapSet(acc, key, <<d>>))

\* As UniqueData, but the first point of a timestamp is kept.
RECURSIVE UniqueData_keepFirst(_, _)
UniqueData_keepFirst(tokenData, acc) ==
    IF tokenData = <<>> THEN acc
    ELSE UniqueData_keepFirst(Tail(tokenData),
                    IF MapHas(acc, Head(tokenData).timestamp) THEN acc
                    ELSE MapSet(acc, Head(tokenData).timestamp, Head(tokenData)))

\* uniqueData: Map from timestamp to point; a later point of a timestamp
\* replaces the earlier one.
RECURSIVE UniqueData(_, _)
UniqueData(tokenData, acc) ==
    IF tokenData = <<>> THEN acc
    ELSE UniqueData(Tail(tokenData),
                    MapSet(acc, Head(tokenData).timestamp, Head(tokenData)))

RECURSIVE InsertByTimestamp(_, _)
InsertByTimestamp(sorted, d) ==
    IF sorted = <<>> THEN <<d>>
    ELSE IF d.timestamp < Head(sorted).timestamp THEN <<d>> \o sorted
    ELSE <<Head(sorted)>> \o InsertByTimestamp(Tail(sorted), d)

\* .sort((a, b) => a.timestamp - b.timestamp), a stable sort
RECURSIVE SortByTimestamp(_)
SortByTimestamp(ds) ==
    IF ds = <<>> THEN <<>>
    ELSE InsertByTimestamp(SortByTimestamp(SubSeq(ds, 1, Len(ds) - 1)), ds[Len(ds)])

\* The points handed to setData for a token's series.
ChartData(ct, tokenData) ==
    LET ds == SortByTimestamp(MapValues(UniqueData(tokenData, <<>>)))
    IN  IF ct = "line"
        THEN [i \in 1..Len(ds) |-> [time |-> ds[i].timestamp, value |-> ds[i].close]]
        ELSE [i \in 1..Len(ds) |->
                [time |-> ds[i].timestamp, open |-> ds[i].open, high |-> ds[i].high,
                 low |-> ds[i].low, close |-> ds[i].close]]

----------------------------------------------------------------------------
(* The band calculator (statisticalBands.ts 17-193) *)

\* dataByTimestamp: Map from timestamp to the points of that timestamp, in
\* the order the timestamps first occur.
RECURSIVE GroupByTimestamp(_, _)
GroupByTimestamp(fd, acc) ==
    IF fd = <<>> THEN acc
    ELSE LET d == Head(fd)
         IN  GroupByTimestamp(Tail(fd),
                 IF MapHas(acc, d.timestamp)
                 THEN MapSet(acc, d.timestamp, Append(MapGet(acc, d.timestamp), d))
                 ELSE MapSet(acc, d.timestamp, <<d>>))

Mean(xs) == FDiv(Sum(xs), Number(Len(xs)))

\* As StandardDeviation, but the sample standard deviation (divisor n - 1).
StandardDeviation_sample(xs, mean) ==
    IF Len(xs) > 1 THEN FSqrt(FDiv(SumOfSquares(xs, mean), Number(Len(xs) - 1)))
    ELSE <<0, 1>>

\* The population standard deviation of xs about mean; 0 for one value.
StandardDeviation(xs, mean) ==
    IF Len(xs) > 1 THEN FSqrt(FDiv(SumOfSquares(xs, mean), Number(Len(xs))))
    ELSE <<0, 1>>

\* As getSigmaValue, but a level that is switched off counts as sigma 0.
getSigmaValue_enabledOnly(config, bandKey, fallback) ==
    IF bandKey \in DOMAIN config.levels /\ "sigmaValue" \in DOMAIN config.levels[bandKey]
    THEN IF config.levels[bandKey].enabled THEN config.levels[bandKey].sigmaValue
         ELSE <<0, 1>>
    ELSE fallback

\* config.levels[bandKey]?.sigmaValue ?? fallback
getSigmaValue(config, bandKey, fallback) ==
    IF bandKey \in DOMAIN config.levels /\ "sigmaValue" \in DOMAIN config.levels[bandKey]
    THEN config.levels[bandKey].sigmaValue
    ELSE fallback

\* bandPoints.push: the mean, and the mean plus and minus each offset
\* (standardDeviation * sigma).
BandPointOf(timestamp, mean, offset1, offset2, offset3, offset4) ==
    [timestamp |-> timestamp, mean |-> mean,
     band1 |-> FAdd(mean, offset1), band2 |-> FAdd(mean, offset2),
     band3 |-> FAdd(mean, offset3), band4 |-> FAdd(mean, offset4),
     band1Neg |-> FSub(mean, offset1), band2Neg |-> FSub(mean, offset2),
     band3Neg |-> FSub(mean, offset3), band4Neg |-> FSub(mean, offset4)]

\* The band point for a mean and a standard deviation.
BandPointWithin(timestamp, mean, standardDeviation, config) ==
    BandPointOf(timestamp, mean,
        FMul(standardDeviation, getSigmaValue(config, "band1", <<1, 1>>)),
        FMul(standardDeviation, getSigmaValue(config, "band2", <<2, 1>>)),
        FMul(standardDeviation, getSigmaValue(config, "band3", <<5, 2>>)),
        FMul(standardDeviation, getSigmaValue(config, "band4", <<3, 1>>)))

\* The band point of xs about their mean.
BandPointAbout(timestamp, xs, mean, config) ==
    BandPointWithin(timestamp, mean, StandardDeviation(xs, mean), config)

\* The band point of xs: the closes of a timestamp in snapshot mode, the
\* group typical prices so far in cumulative mode.
BandPoint(timestamp, xs, config) ==
    BandPointAbout(timestamp, xs, Mean(xs), config)

\* timestampData.map(d => d.close)
RECURSIVE ClosePrices(_)
ClosePrices(timestampData) ==
    IF timestampData = <<>> THEN <<>>
    ELSE <<Number(Head(timestampData).close)>> \o ClosePrices(Tail(timestampData))

\* dataByTimestamp.forEach: one band point per timestamp, from the closes of
\* the points of that timestamp.
RECURSIVE StandardBandPoints(_, _)
StandardBandPoints(dataByTimestamp, config) ==
    IF dataByTimestamp = <<>> THEN <<>>
    ELSE <<BandPoint(Head(dataByTimestamp).k, ClosePrices(Head(dataByTimestamp).v), config)>>
            \o StandardBandPoints(Tail(dataByTimestamp), config)

\* As calculateStandardBands, but the band points stay in the order in which
\* their timestamps first occur.
calculateStandardBands_unsorted(points, config) ==
    StandardBandPoints(GroupByTimestamp(points, <<>>), config)

\* Snapshot mode.
calculateStandardBands(points, config) ==
    SortByTimestamp(StandardBandPoints(GroupByTimestamp(points, <<>>), config))

\* a >= b
AtLeast(a, b) == a[1] * b[2] >= b[1] * a[2]

\* No stable timestamp range is passed (null).
NoRange == [none |-> TRUE]

\* rebaseTimestamp: null (here NoRange) unless the slider is above 0 and a
\* range is passed.
RebaseTimestamp(slider, range) ==
    IF slider # 0 /\ slider > 0 /\ range # NoRange
    THEN FAdd(Number(range.minTimestamp),
              FMul(FSub(Number(range.maxTimestamp), Number(range.minTimestamp)),
                   FDiv(Number(slider), Number(100))))
    ELSE NoRange

\* The numbers of a list in ascending order: .sort((a, b) => a - b)
RECURSIVE SortNumbers(_)
SortNumbers(ts) ==
    IF ts = <<>> THEN <<>>
    ELSE LET rest == SortNumbers(SubSeq(ts, 1, Len(ts) - 1))
             t == ts[Len(ts)]
         IN  SelectSeq(rest, LAMBDA u : u <= t) \o <<t>> \o SelectSeq(rest, LAMBDA u : u > t)

\* As TokenTPs, but the typical price of a point is its close.
TokenTPs_closeOnly(timestampData) == ClosePrices(timestampData)

\* timestampData.map(d => (d.high + d.low + d.close) / 3)
RECURSIVE TokenTPs(_)
TokenTPs(timestampData) ==
    IF timestampData = <<>> THEN <<>>
    ELSE LET d == Head(timestampData)
         IN  <<FDiv(FAdd(FAdd(Number(d.high), Number(d.low)), Number(d.close)),
                    Number(3))>> \o TokenTPs(Tail(timestampData))

RECURSIVE VwapBandPoints(_, _, _, _)

\* The rest of one round of filteredTimestamps.forEach, once the group
\* typical price of the first timestamp has joined cumulativeGroupTPs: the
\* band point is made from all of them.
RECURSIVE VwapBandPointsWith(_, _, _, _)
VwapBandPointsWith(timestamps, dataByTimestamp, cumulativeGroupTPs, config) ==
    <<BandPoint(Head(timestamps), cumulativeGroupTPs, config)>>
        \o VwapBandPoints(Tail(timestamps), dataByTimestamp, cumulativeGroupTPs, config)

\* filteredTimestamps.forEach: the group typical price of each timestamp
\* joins cumulativeGroupTPs.
VwapBandPoints(timestamps, dataByTimestamp, cumulativeGroupTPs, config) ==
    IF timestamps = <<>> THEN <<>>
    ELSE VwapBandPointsWith(timestamps, dataByTimestamp,
             Append(cumulativeGroupTPs,
                    Mean(TokenTPs(MapGet(dataByTimestamp, Head(timestamps))))),
             config)

\* As FilteredTimestamps, but a timestamp equal to the rebase timestamp is
\* left out.
FilteredTimestamps_strict(sortedTimestamps, rebaseTimestamp) ==
    IF rebaseTimestamp # NoRange /\ rebaseTimestamp # <<0, 1>>
    THEN SelectSeq(sortedTimestamps, LAMBDA t : ~AtLeast(rebaseTimestamp, Number(t)))
    ELSE sortedTimestamps

\* filteredTimestamps: the timestamps at or after the rebase timestamp, or
\* all of them when it is null or 0.
FilteredTimestamps(sortedTimestamps, rebaseTimestamp) ==
    IF rebaseTimestamp # NoRange /\ rebaseTimestamp # <<0, 1>>
    THEN SelectSeq(sortedTimestamps, LAMBDA t : AtLeast(Number(t), rebaseTimestamp))
    ELSE sortedTimestamps

\* The band points of the groups, in ascending order of timestamp.
VwapBandsFrom(dataByTimestamp, rebaseTimestamp, config) ==
    VwapBandPoints(FilteredTimestamps(SortNumbers(MapKeys(dataByTimestamp)),
                                      rebaseTimestamp),
                   dataByTimestamp, <<>>, config)

\* Cumulative mode.
calculateVwapStyleBands(points, config, slider, range) ==
    VwapBandsFrom(GroupByTimestamp(points, <<>>), RebaseTimestamp(slider, range), config)

\* As calculateStatisticalBands, but the points are not filtered.
calculateStatisticalBands_unfiltered(fd, visibleCAs, config, slider, range) ==
    IF Len(fd) = 0 \/ Len(visibleCAs) = 0 THEN <<>>
    ELSE IF config.useVwapStyle
    THEN calculateVwapStyleBands(fd, config, slider, range)
    ELSE calculateStandardBands(fd, config)

\* As calculateStatisticalBands, but a point is matched by its symbol.
calculateStatisticalBands_bySymbol(fd, visibleCAs, config, slider, range) ==
    LET own == SelectSeq(fd, LAMBDA d : \E ca \in Range(visibleCAs) : d.symbol = SymbolOf(ca))
    IN  IF Len(fd) = 0 \/ Len(visibleCAs) = 0 \/ Len(own) = 0 THEN <<>>
        ELSE IF config.useVwapStyle
        THEN calculateVwapStyleBands(own, config, slider, range)
        ELSE calculateStandardBands(own, config)

\* data.filter(d => visibleSymbols.includes(d.CA)), then the mode's
\* calculation.
calculateStatisticalBands(fd, visibleCAs, config, slider, range) ==
    LET own == SelectSeq(fd, LAMBDA d : Includes(visibleCAs, d.CA))
    IN  IF Len(fd) = 0 \/ Len(visibleCAs) = 0 \/ Len(own) = 0 THEN <<>>
        ELSE IF config.useVwapStyle
        THEN calculateVwapStyleBands(own, config, slider, range)
        ELSE calculateStandardBands(own, config)

----------------------------------------------------------------------------
(* The data/series effect (deps: filteredData, chartType, tokenColors,      *)
(* tokenColorsByCA, tokenLineWeights, statisticalBandConfig,                *)
(* sliderPosition, stableTimestampRange, visibleTokens)                     *)

\* Faulty variant: the registry is cleared without removing its series from
\* the chart.
HandlesToClear_none(m) == <<>>

\* Faulty variant: the indicator series are removed along with the others.
HandlesToClear_withIndicators(m) == MapValues(m.seriesRefs) \o MapValues(m.ind)

\* The handles the effect removes before it rebuilds: those of seriesRefs.
HandlesToClear(m) == MapValues(m.seriesRefs)

\* seriesRefs.current.forEach(series => chart.removeSeries(series)), with
\* no try around it: a throw ends the effect.
RECURSIVE RemoveAll(_, _)
RemoveAll(m, hs) ==
    IF hs = <<>> \/ m.thrown THEN m
    ELSE RemoveAll(RemoveSeries(m, Head(hs)), Tail(hs))

\* As ClearSeries, but seriesRefs is left as it was.
ClearSeries_keepsRegistry(m, hasChart) ==
    IF hasChart THEN RemoveAll(m, HandlesToClear(m)) ELSE m

\* ... followed by seriesRefs.current.clear()
ClearSeries(m, hasChart) ==
    LET m1 == IF hasChart THEN RemoveAll(m, HandlesToClear(m)) ELSE m
    IN  IF m1.thrown THEN m1 ELSE [m1 EXCEPT !.seriesRefs = <<>>]

\* One token of dataByToken.forEach: addSeries, setData, autoScale off,
\* seriesRefs.set(tokenKey, series).
CreateTokenSeries(m, p, tokenKey, tokenData) ==
    LET m1 == AddSeries(m, tokenKey, SeriesKind(p.chartType),
                       TokenSeriesOptions(p, tokenKey), 0)
        h == m1.ret
        m2 == DisableAutoScale(SetData(m1, h, ChartData(p.chartType, tokenData)))
    IN  [m2 EXCEPT !.seriesRefs = MapSet(@, tokenKey, h)]

RECURSIVE CreateAllTokenSeries(_, _, _)
CreateAllTokenSeries(m, p, groups) ==
    IF groups = <<>> THEN m
    ELSE CreateAllTokenSeries(
             CreateTokenSeries(m, p, Head(groups).k, Head(groups).v),
             p, Tail(groups))

\* allBands: the nine band series, each with the level that styles it.
allBands(config) ==
    << [key |-> "mean", dataKey |-> "mean", config |-> config.levels.mean],
       [key |-> "band1_pos", dataKey |-> "band1", config |-> config.levels.band1],
       [key |-> "band2_pos", dataKey |-> "band2", config |-> config.levels.band2],
       [key |-> "band3_pos", dataKey |-> "band3", config |-> config.levels.band3],
       [key |-> "band4_pos", dataKey |-> "band4", config |-> config.levels.band4],
       [key |-> "band1_neg", dataKey |-> "band1Neg", config |-> config.levels.band1],
       [key |-> "band2_neg", dataKey |-> "band2Neg", config |-> config.levels.band2],
       [key |-> "band3_neg", dataKey |-> "band3Neg", config |-> config.levels.band3],
       [key |-> "band4_neg", dataKey |-> "band4Neg", config |-> config.levels.band4] >>

LineStyleCode(style) ==
    CASE style = "dotted" -> 1
      [] style = "dashed" -> 2
      [] style = "longdash" -> 3
      [] style = "dashdot" -> 4
      [] OTHER -> 0

BandKey(key) == <<"band_", key>>

\* As CreateBandSeries, but a band is created whether or not it is enabled.
CreateBandSeries_ignoresEnabled(m, band, bandPoints) ==
    IF FALSE THEN m
    ELSE LET m1 == AddSeries(m, BandKey(band.key), "Line",
                       [color |-> band.config.color,
                        lineWidth |-> band.config.lineWeight,
                        lineStyle |-> LineStyleCode(band.config.lineStyle),
                        lastValueVisible |-> FALSE, priceLineVisible |-> FALSE], 0)
             h == m1.ret
             chartData == [i \in 1..Len(bandPoints) |->
                              [time |-> bandPoints[i].timestamp,
                               value |-> bandPoints[i][band.dataKey]]]
             m2 == DisableAutoScale(SetData(m1, h, chartData))
         IN  [m2 EXCEPT !.seriesRefs = MapSet(@, BandKey(band.key), h)]

\* One band of allBands.forEach.
CreateBandSeries(m, band, bandPoints) ==
    IF ~band.config.enabled THEN m
    ELSE LET m1 == AddSeries(m, BandKey(band.key), "Line",
                       [color |-> band.config.color,
                        lineWidth |-> band.config.lineWeight,
                        lineStyle |-> LineStyleCode(band.config.lineStyle),
                        lastValueVisible |-> FALSE, priceLineVisible |-> FALSE], 0)
             h == m1.ret
             chartData == [i \in 1..Len(bandPoints) |->
                              [time |-> bandPoints[i].timestamp,
                               value |-> bandPoints[i][band.dataKey]]]
             m2 == DisableAutoScale(SetData(m1, h, chartData))
         IN  [m2 EXCEPT !.seriesRefs = MapSet(@, BandKey(band.key), h)]

RECURSIVE CreateAllBandSeries(_, _, _)
CreateAllBandSeries(m, bands, bandPoints) ==
    IF bands = <<>> THEN m
    ELSE CreateAllBandSeries(CreateBandSeries(m, Head(bands), bandPoints),
                             Tail(bands), bandPoints)

BandSeriesOf(m, p, bandPoints) ==
    IF Len(bandPoints) > 0
    THEN CreateAllBandSeries(m, allBands(p.statisticalBandConfig), bandPoints)
    ELSE m

\* calculateStatisticalBands(filteredData, Array.from(visibleTokens),
\* statisticalBandConfig, sliderPosition, stableTimestampRange) for every
\* batch, visible list, band configuration and slider position the parent
\* passes, as a table: the calculator is a pure function of these.
BandPointsOfProps ==
    [d \in DataSets \cup KeyDataSets \cup RepeatedDataSets, v \in VisibleSets \cup KeyVisibleSets,
     c \in BandConfigs, s \in SliderPositions |->
        calculateStatisticalBands(filteredData([data |-> d, visibleTokens |-> v]),
                                  v, c, s, stableTimestampRange)] @@ <<>>

BandsOfDataEffect(m, p) ==
    IF p.statisticalBandConfig.enabled /\ Len(filteredData(p)) > 0
    THEN BandSeriesOf(m, p,
             BandPointsOfProps[p.data, p.visibleTokens, p.statisticalBandConfig,
                               p.sliderPosition])
    ELSE m

DataEffect(m, p, hasChart) ==
    LET fd == filteredData(p)
    IN  IF ~hasChart \/ Len(fd) = 0
        THEN ClearSeries(m, hasChart)
        ELSE LET m1 == ClearSeries(m, TRUE)
             IN  IF m1.thrown THEN m1
                 ELSE BandsOfDataEffect(
                          DisableAutoScale(
                              CreateAllTokenSeries(m1, p, GroupByToken(fd, <<>>))),
                          p)

\* The band clean-up effect (deps: statisticalBandConfig?.enabled)
RECURSIVE RemoveBandSeries(_, _)
RemoveBandSeries(m, entries) ==
    IF entries = <<>> \/ m.thrown THEN m
    ELSE LET e == Head(entries)
             m1 == RemoveSeries(m, e.v)
         IN  IF m1.thrown THEN m1
             ELSE RemoveBandSeries([m1 EXCEPT !.seriesRefs = MapDelete(@, e.k)],
                                   Tail(entries))

BandCleanupEffect(m, p, hasChart) ==
    IF ~p.statisticalBandConfig.enabled \/ ~hasChart
    THEN LET existing == SelectSeq(m.seriesRefs, LAMBDA e : StartsWithBand(e.k))
         IN  IF hasChart THEN RemoveBandSeries(m, existing)
             ELSE [m EXCEPT !.seriesRefs =
                      SelectSeq(@, LAMBDA e : ~StartsWithBand(e.k))]
    ELSE m

----------------------------------------------------------------------------
(* The indicator lifecycle effect (deps: proximityMode, visibleTokens,      *)
(* tokenColors, tokenColorsByCA)                                            *)

\* proximityIndicatorConfig?.proximityMode !== 'disabled'
isEnabled(p) == p.proximityMode # "disabled"

\* Faulty variant: the has() test is dropped.
NeedsIndicator_always(m, tokenCA) == TRUE

\* !tokenIndicatorSeriesRefs.current.has(tokenCA)
NeedsIndicator(m, tokenCA) == ~MapHas(m.ind, tokenCA)

\* tokenColors[tokenCA] || tokenColorsByCA?.[tokenCA] || dflt
IndicatorColor(p, tokenCA, dflt) ==
    ColorOr(p.tokenColors, tokenCA, ColorOr(p.tokenColorsByCA, tokenCA, dflt))

CreateIndicator(m, p, tokenCA) ==
    IF ~NeedsIndicator(m, tokenCA) THEN m
    ELSE LET m1 == AddSeries(m, <<"indicator">> \o tokenCA, "Line",
                       [color |-> IndicatorColor(p, tokenCA, DefaultIndicatorColor),
                        lineWidth |-> 1, visible |-> TRUE,
                        lastValueVisible |-> FALSE, priceLineVisible |-> FALSE], 1)
             h == m1.ret
             m2 == [m1 EXCEPT !.ind = MapSet(@, tokenCA, h)]
             m3 == CreateSeriesMarkers(m2, h)
         IN  [m3 EXCEPT !.markers = MapSet(@, tokenCA, m3.ret)]

RECURSIVE CreateIndicators(_, _, _)
CreateIndicators(m, p, tokenCAs) ==
    IF tokenCAs = <<>> THEN m
    ELSE CreateIndicators(CreateIndicator(m, p, Head(tokenCAs)), p, Tail(tokenCAs))

\* Faulty variant: no indicator series is ever found stale.
IsStale_never(p, tokenCA) == FALSE

\* !visibleTokenCAs.includes(tokenCA)
IsStale(p, tokenCA) == ~Includes(p.visibleTokens, tokenCA)

\* The try block of the enabled branch; a throw skips the rest of the block
\* and is caught.
RemoveIndicator(m, tokenCA) ==
    LET m1 == IF MapHas(m.markers, tokenCA)
              THEN SetMarkers(m, MapGet(m.markers, tokenCA), <<>>)
              ELSE m
        m2 == IF MapHas(m1.ind, tokenCA)
              THEN RemoveSeries(m1, MapGet(m1.ind, tokenCA))
              ELSE m1
    IN  IF m2.thrown THEN [m2 EXCEPT !.thrown = FALSE]
        ELSE [m2 EXCEPT !.ind = MapDelete(@, tokenCA),
                        !.markers = MapDelete(@, tokenCA)]

RECURSIVE RemoveStaleIndicators(_, _, _)
RemoveStaleIndicators(m, p, tokenCAs) ==
    IF tokenCAs = <<>> THEN m
    ELSE RemoveStaleIndicators(
             IF IsStale(p, Head(tokenCAs)) THEN RemoveIndicator(m, Head(tokenCAs)) ELSE m,
             p, Tail(tokenCAs))

\* The try block of the disabled branch: the series is removed only when
\* the chart still holds it.
CleanupIndicator(m, tokenCA) ==
    LET m1 == IF MapHas(m.markers, tokenCA)
              THEN SetMarkers(m, MapGet(m.markers, tokenCA), <<>>)
              ELSE m
        m2 == IF MapHas(m1.ind, tokenCA) /\ MapGet(m1.ind, tokenCA) \in DOMAIN m1.chart
              THEN RemoveSeries(m1, MapGet(m1.ind, tokenCA))
              ELSE m1
    IN  [m2 EXCEPT !.thrown = FALSE]

RECURSIVE CleanupIndicators(_, _)
CleanupIndicators(m, tokenCAs) ==
    IF tokenCAs = <<>> THEN m
    ELSE CleanupIndicators(CleanupIndicator(m, Head(tokenCAs)), Tail(tokenCAs))

\* Faulty variant: the two clear() calls are missing.
DisabledBranch_keepsMaps(m) == CleanupIndicators(m, MapKeys(m.ind))

\* The disabled branch: every series cleaned up, then both maps cleared.
DisabledBranch(m) ==
    [CleanupIndicators(m, MapKeys(m.ind)) EXCEPT !.ind = <<>>, !.markers = <<>>]

EnabledBranch(m, p) ==
    LET m1 == SetPaneHeight(CreateIndicators(m, p, p.visibleTokens))
    IN  RemoveStaleIndicators(m1, p, MapKeys(m1.ind))

LifecycleEffect(m, p, hasChart) ==
    IF ~hasChart THEN m
    ELSE IF isEnabled(p) THEN EnabledBranch(m, p)
    ELSE DisabledBranch(m)

\* The calls of the indicator lifecycle that the chart library may fail.
Faults == {"addSeries", "createSeriesMarkers"}

\* One token of visibleTokenCAs.forEach when the library fails the call
\* fault.  There is no try around the creation: a throw of addSeries leaves
\* both maps as they were, a throw of createSeriesMarkers comes after
\* tokenIndicatorSeriesRefs.set and before tokenMarkersRefs.set, and either
\* ends the effect.
CreateIndicatorFailing(m, p, tokenCA, fault) ==
    IF m.thrown \/ ~NeedsIndicator(m, tokenCA) THEN m
    ELSE IF fault = "addSeries"
    THEN [Log(m, [op |-> "addSeries", h |-> NoHandle]) EXCEPT !.thrown = TRUE]
    ELSE [CreateIndicator(m, p, tokenCA) EXCEPT !.markers = m.markers, !.thrown = TRUE]

RECURSIVE CreateIndicatorsFailing(_, _, _, _)
CreateIndicatorsFailing(m, p, tokenCAs, fault) ==
    IF tokenCAs = <<>> THEN m
    ELSE CreateIndicatorsFailing(CreateIndicatorFailing(m, p, Head(tokenCAs), fault),
                                 p, Tail(tokenCAs), fault)

\* The lifecycle effect when the library fails the call fault: the enabled
\* branch stops at the throw, the disabled branch creates nothing.
LifecycleEffectFailing(m, p, hasChart, fault) ==
    IF ~hasChart THEN m
    ELSE IF isEnabled(p)
    THEN LET m0 == CreateIndicatorsFailing(m, p, p.visibleTokens, fault)
             m1 == SetPaneHeight(m0)
         IN  IF m0.thrown THEN m0
             ELSE RemoveStaleIndicators(m1, p, MapKeys(m1.ind))
    ELSE DisabledBranch(m)

----------------------------------------------------------------------------
(* The flat-data effect of the indicator series (deps: filteredData,        *)
(* proximityMode)                                                           *)

RECURSIVE GroupByCA(_, _)
GroupByCA(fd, acc) ==
    IF fd = <<>> THEN acc
    ELSE LET d == Head(fd)
         IN  GroupByCA(Tail(fd),
                 IF MapHas(acc, d.CA)
                 THEN MapSet(acc, d.CA, Append(MapGet(acc, d.CA), d))
                 ELSE MapSet(acc, d.CA, <<d>>))

\* y = 0 at every timestamp of the token, sorted, a repeated timestamp
\* dropped.
FlatData(tokenData) ==
    LET sorted == SortByTimestamp(tokenData)
        flat == [i \in 1..Len(sorted) |-> [time |-> sorted[i].timestamp, value |-> 0]]
        idx == {i \in 1..Len(flat) : i = 1 \/ flat[i - 1].time # flat[i].time}
    IN  [j \in 1..Cardinality(idx) |->
            flat[CHOOSE i \in idx : Cardinality({k \in idx : k < i}) = j - 1]]

RECURSIVE SetFlatData(_, _, _)
SetFlatData(m, entries, byToken) ==
    IF entries = <<>> THEN m
    ELSE LET e == Head(entries)
         IN  SetFlatData(
                 IF MapHas(byToken, e.k) /\ Len(MapGet(byToken, e.k)) > 0
                 THEN SetData(m, e.v, FlatData(MapGet(byToken, e.k)))
                 ELSE m,
                 Tail(entries), byToken)

FlatDataEffect(m, p) ==
    LET fd == filteredData(p)
    IN  IF isEnabled(p) /\ Len(fd) > 0
        THEN SetFlatData(m, m.ind, GroupByCA(fd, <<>>))
        ELSE m

----------------------------------------------------------------------------
(* The proximity markers effect (deps: proximityIndicatorData, tokenColors, *)
(* tokenColorsByCA, proximityMode)                                          *)

Proximity(value, levels) == [proximityValue |-> value, triggeredLevels |-> levels]

\* One ProximityIndicatorPoint: tokenProximity lists the tokens in the
\* order Object.entries yields them.
ProximityPoint(t, a, b) ==
    [timestamp |-> t,
     tokenProximity |-> << [k |-> <<"A">>, v |-> a], [k |-> <<"B">>, v |-> b] >>]

\* A fires twice at timestamp 1 and has no triggered level at 2; B fires at 2.
ProximityData ==
    << ProximityPoint(1, Proximity(1, <<"band1">>), Proximity(0, <<>>)),
       ProximityPoint(1, Proximity(1, <<"band2">>), Proximity(0, <<>>)),
       ProximityPoint(2, Proximity(1, <<>>), Proximity(1, <<"mean">>)) >>

ProximityDataSets == {<<>>, ProximityData}

DefaultMarkerColor == "#ffffff"

\* The entries of one point that fire, appended to proximityByToken.
RECURSIVE AddProximityEntries(_, _, _)
AddProximityEntries(acc, t, entries) ==
    IF entries = <<>> THEN acc
    ELSE LET e == Head(entries)
             fires == e.v.proximityValue = 1 /\ Len(e.v.triggeredLevels) > 0
             item == [time |-> t, triggeredLevels |-> e.v.triggeredLevels]
         IN  AddProximityEntries(
                 IF ~fires THEN acc
                 ELSE IF MapHas(acc, e.k) THEN MapSet(acc, e.k, Append(MapGet(acc, e.k), item))
                 ELSE MapSet(acc, e.k, <<item>>),
                 t, Tail(entries))

RECURSIVE ProximityByToken(_, _)
ProximityByToken(points, acc) ==
    IF points = <<>> THEN acc
    ELSE ProximityByToken(Tail(points),
             AddProximityEntries(acc, Head(points).timestamp, Head(points).tokenProximity))

\* The marker list built for one token.
TokenMarkers(p, tokenCA, byToken) ==
    LET own == IF MapHas(byToken, tokenCA) THEN MapGet(byToken, tokenCA) ELSE <<>>
    IN  [i \in 1..Len(own) |->
            [time |-> own[i].time, position |-> "aboveBar",
             color |-> IndicatorColor(p, tokenCA, DefaultMarkerColor),
             shape |-> "circle", size |-> "large", text |-> "P"]]

RECURSIVE SetTokenMarkers(_, _, _, _)
SetTokenMarkers(m, p, entries, byToken) ==
    IF entries = <<>> THEN m
    ELSE SetTokenMarkers(
             SetMarkers(m, Head(entries).v, TokenMarkers(p, Head(entries).k, byToken)),
             p, Tail(entries), byToken)

RECURSIVE ClearMarkers(_, _, _)
ClearMarkers(m, entries, keep) ==
    IF entries = <<>> THEN m
    ELSE ClearMarkers(
             IF MapHas(keep, Head(entries).k) THEN m
             ELSE SetMarkers(m, Head(entries).v, <<>>),
             Tail(entries), keep)

MarkersEffect(m, p) ==
    IF isEnabled(p) /\ Len(p.proximityIndicatorData) > 0
    THEN LET byToken == ProximityByToken(p.proximityIndicatorData, <<>>)
         IN  ClearMarkers(SetTokenMarkers(m, p, m.markers, byToken), m.markers, byToken)
    ELSE ClearMarkers(m, m.markers, <<>>)

----------------------------------------------------------------------------
(* Reactions *)

Props ==
    [data |-> data, chartType |-> chartType, visibleTokens |-> visibleTokens,
     tokenColors |-> tokenColors, tokenColorsByCA |-> tokenColorsByCA,
     tokenLineWeights |-> tokenLineWeights,
     statisticalBandConfig |-> statisticalBandConfig,
     sliderPosition |-> sliderPosition, proximityMode |-> proximityMode,
     proximityIndicatorData |-> proximityIndicatorData]

DefaultBandConfig == BandConfig(FALSE, FALSE)

\* The settings of the props.
SettingsOf(p) ==
    [colors |-> [byCA |-> p.tokenColorsByCA, bySymbol |-> p.tokenColors],
     lineWeights |-> p.tokenLineWeights, bands |-> p.statisticalBandConfig,
     slider |-> p.sliderPosition, proximity |-> p.proximityIndicatorData]

DefaultSettings ==
    [colors |-> [byCA |-> EmptyObject, bySymbol |-> EmptyObject],
     lineWeights |-> EmptyObject, bands |-> DefaultBandConfig,
     slider |-> 0, proximity |-> <<>>]

\* The settings the parent passes: one setting at a time away from its
\* default, and the anchor slider moved while the cumulative bands show.
SettingsProfiles ==
    {[DefaultSettings EXCEPT !.colors = c] : c \in TokenColorSettings}
        \cup {[DefaultSettings EXCEPT !.lineWeights = w] : w \in LineWeightMaps}
        \cup {[DefaultSettings EXCEPT !.bands = c] : c \in BandConfigs}
        \cup {[DefaultSettings EXCEPT !.slider = pos] : pos \in SliderPositions}
        \cup {[DefaultSettings EXCEPT !.proximity = pd] : pd \in ProximityDataSets}
        \cup {[DefaultSettings EXCEPT !.bands = BandConfig(TRUE, TRUE), !.slider = pos] :
                pos \in SliderPositions}

\* The refs as a reaction finds them.
Start ==
    [chart |-> chart, seriesRefs |-> seriesRefs, ind |-> tokenIndicatorSeriesRefs,
     markers |-> tokenMarkersRefs, calls |-> <<>>,
     old |-> DOMAIN chart \cup Handles(seriesRefs)
                \cup Handles(tokenIndicatorSeriesRefs) \cup Handles(tokenMarkersRefs),
     thrown |-> FALSE, failed |-> FALSE, ret |-> NoHandle]

\* The end of one effect: a throw nothing caught is reported to React, and
\* the next effect of the commit still runs.
Settle(m) == [m EXCEPT !.failed = @ \/ m.thrown, !.thrown = FALSE]

\* The state a reaction leaves.  An effect that threw unmounts the
\* component, whose cleanup removes the chart and clears seriesRefs.
Commit(p, m, name, hasChart) ==
    /\ SettingsOf(p) \in SettingsProfiles
    /\ data' = p.data
    /\ chartType' = p.chartType
    /\ visibleTokens' = p.visibleTokens
    /\ tokenColors' = p.tokenColors
    /\ tokenColorsByCA' = p.tokenColorsByCA
    /\ tokenLineWeights' = p.tokenLineWeights
    /\ statisticalBandConfig' = p.statisticalBandConfig
    /\ sliderPosition' = p.sliderPosition
    /\ proximityMode' = p.proximityMode
    /\ proximityIndicatorData' = p.proximityIndicatorData
    /\ lastReaction' = name
    /\ calls' = m.calls
    /\ error' = m.failed
    /\ tokenIndicatorSeriesRefs' = m.ind
    /\ tokenMarkersRefs' = m.markers
    /\ IF m.failed
       THEN phase' = "unmounted" /\ chartRef' = FALSE /\ chart' = <<>>
            /\ seriesRefs' = <<>>
       ELSE phase' = "mounted" /\ chartRef' = hasChart /\ chart' = m.chart
            /\ seriesRefs' = m.seriesRefs
    /\ UNCHANGED <<configVars, bandVars>>

\* The first render shows the chart container only when there is data to
\* show; the chart is created only when the container is there.
Mount ==
    /\ phase = "new"
    /\ LET p == Props
           hasChart == Len(p.data) > 0 /\ Len(filteredData(p)) > 0
           m0 == IF hasChart
                 THEN Log(Log(Start, [op |-> "createChart", h |-> NoHandle]),
                          [op |-> "priceScale.applyOptions", h |-> NoHandle])
                 ELSE Start
           m1 == Settle(DataEffect(m0, p, hasChart))
           m2 == Settle(BandCleanupEffect(m1, p, hasChart))
           m3 == Settle(LifecycleEffect(m2, p, hasChart))
           m4 == Settle(FlatDataEffect(m3, p))
           m5 == Settle(MarkersEffect(m4, p))
       IN  Commit(p, m5, "mount", hasChart)

\* New points arrive: data changes, so filteredData is recomputed.
NewData(d) ==
    /\ phase = "mounted"
    /\ d # data
    /\ LET p == [Props EXCEPT !.data = d]
           m1 == Settle(DataEffect(Start, p, chartRef))
           m2 == Settle(FlatDataEffect(m1, p))
       IN  Commit(p, m2, "data", chartRef)

Toggled(vs, ca) ==
    SelectSeq(CAOrder, LAMBDA c : (c = ca) # Includes(vs, c))

\* The user shows or hides an instrument: visibleTokens changes.
ToggleVisibility(ca) ==
    /\ phase = "mounted"
    /\ LET p == [Props EXCEPT !.visibleTokens = Toggled(visibleTokens, ca)]
           m1 == Settle(DataEffect(Start, p, chartRef))
           m2 == Settle(LifecycleEffect(m1, p, chartRef))
           m3 == Settle(FlatDataEffect(m2, p))
       IN  Commit(p, m3, "visibility", chartRef)

\* The user shows or hides an instrument while the library fails the call
\* fault of the indicator lifecycle.
ToggleVisibilityFailing(ca, fault) ==
    /\ phase = "mounted"
    /\ LET p == [Props EXCEPT !.visibleTokens = Toggled(visibleTokens, ca)]
           m1 == Settle(DataEffect(Start, p, chartRef))
           m2 == Settle(LifecycleEffectFailing(m1, p, chartRef, fault))
           m3 == Settle(FlatDataEffect(m2, p))
       IN  Commit(p, m3, "visibility", chartRef)

ChangeChartType(ct) ==
    /\ phase = "mounted"
    /\ ct # chartType
    /\ LET p == [Props EXCEPT !.chartType = ct]
           m1 == Settle(DataEffect(Start, p, chartRef))
       IN  Commit(p, m1, "chartType", chartRef)

\* tokenColors or tokenColorsByCA changes.
ChangeTokenColors(c) ==
    /\ phase = "mounted"
    /\ <<c.byCA, c.bySymbol>> # <<tokenColorsByCA, tokenColors>>
    /\ LET p == [Props EXCEPT !.tokenColorsByCA = c.byCA, !.tokenColors = c.bySymbol]
           m1 == Settle(DataEffect(Start, p, chartRef))
           m2 == Settle(LifecycleEffect(m1, p, chartRef))
           m3 == Settle(MarkersEffect(m2, p))
       IN  Commit(p, m3, "tokenColors", chartRef)

ChangeLineWeights(w) ==
    /\ phase = "mounted"
    /\ w # tokenLineWeights
    /\ LET p == [Props EXCEPT !.tokenLineWeights = w]
           m1 == Settle(DataEffect(Start, p, chartRef))
       IN  Commit(p, m1, "lineWeights", chartRef)

ChangeBandConfig(c) ==
    /\ phase = "mounted"
    /\ c # statisticalBandConfig
    /\ LET p == [Props EXCEPT !.statisticalBandConfig = c]
           m1 == Settle(DataEffect(Start, p, chartRef))
           m2 == IF c.enabled # statisticalBandConfig.enabled
                 THEN Settle(BandCleanupEffect(m1, p, chartRef))
                 ELSE m1
       IN  Commit(p, m2, "bandConfig", chartRef)

\* The anchor slider moves: filteredData is recomputed.
ChangeSlider(pos) ==
    /\ phase = "mounted"
    /\ pos # sliderPosition
    /\ LET p == [Props EXCEPT !.sliderPosition = pos]
           m1 == Settle(DataEffect(Start, p, chartRef))
           m2 == Settle(FlatDataEffect(m1, p))
       IN  Commit(p, m2, "slider", chartRef)

ChangeProximityMode(mode) ==
    /\ phase = "mounted"
    /\ mode # proximityMode
    /\ LET p == [Props EXCEPT !.proximityMode = mode]
           m1 == Settle(LifecycleEffect(Start, p, chartRef))
           m2 == Settle(FlatDataEffect(m1, p))
           m3 == Settle(MarkersEffect(m2, p))
       IN  Commit(p, m3, "proximityMode", chartRef)

ChangeProximityData(pd) ==
    /\ phase = "mounted"
    /\ pd # proximityIndicatorData
    /\ LET p == [Props EXCEPT !.proximityIndicatorData = pd]
           m1 == Settle(MarkersEffect(Start, p))
       IN  Commit(p, m1, "proximityData", chartRef)

\* The ResizeObserver callback, registered when the chart was created.
Resize ==
    /\ phase = "mounted"
    /\ chartRef
    /\ lastReaction # "resize"
    /\ LET m1 == Log(Log(Start, [op |-> "chart.applyOptions", h |-> NoHandle]),
                     [op |-> "priceScale.applyOptions", h |-> NoHandle])
       IN  Commit(Props, m1, "resize", chartRef)

\* The cleanup of the chart effect: chart.remove(), chartRef.current = null,
\* seriesRefs.current.clear().
Unmount ==
    /\ phase = "mounted"
    /\ phase' = "unmounted"
    /\ chartRef' = FALSE
    /\ chart' = <<>>
    /\ seriesRefs' = <<>>
    /\ calls' = IF chartRef THEN << [op |-> "chart.remove", h |-> NoHandle] >> ELSE <<>>
    /\ lastReaction' = "unmount"
    /\ UNCHANGED <<props, tokenIndicatorSeriesRefs, tokenMarkersRefs, error>>
    /\ UNCHANGED <<configVars, bandVars>>

----------------------------------------------------------------------------
(* JSON values, as JavaScript holds them (src/zRef/statisticalBands.ts).    *)
(* A value is a record of its type and its content: the text of a number,   *)
(* the atoms of a string, the fields of an object by name, the elements of  *)
(* an array.  The operators below are the JavaScript operations that        *)
(* getStatisticalBandConfig applies to the value it reads.                  *)

Undefined == [t |-> "undefined", v |-> ""]

Null == [t |-> "null", v |-> ""]

Bool(b) == [t |-> "boolean", v |-> b]

Num(text) == [t |-> "number", v |-> text]

Str(atoms) == [t |-> "string", v |-> atoms]

Obj(fields) == [t |-> "object", v |-> fields]

Arr(elements) == [t |-> "array", v |-> elements]

\* if (x), !x, x || y
Truthy(x) ==
    CASE x.t \in {"undefined", "null"} -> FALSE
      [] x.t = "boolean" -> x.v
      [] x.t = "number" -> x.v # "0"
      [] x.t = "string" -> x.v # <<>>
      [] OTHER -> TRUE

\* As Or, but only undefined and null give way to y (x ?? y).
Or_nullish(x, y) == IF x.t \in {"undefined", "null"} THEN y ELSE x

Or(x, y) == IF Truthy(x) THEN x ELSE y

\* The index keys of a string or an array.
IndexKeys == <<"0", "1", "2">>

IndexOf(k) == CHOOSE i \in 1..Len(IndexKeys) : IndexKeys[i] = k

\* { ...x }: the own enumerable properties of x.  A string spreads into one
\* property per character, an array into one per element, and a number, a
\* boolean, null and undefined into none.
OwnFields(x) ==
    CASE x.t = "object" -> x.v
      [] x.t = "string" ->
            [k \in {IndexKeys[i] : i \in 1..Len(x.v)} |-> Str(<<x.v[IndexOf(k)]>>)]
      [] x.t = "array" ->
            [k \in {IndexKeys[i] : i \in 1..Len(x.v)} |-> x.v[IndexOf(k)]]
      [] OTHER -> <<>>

\* x.k for a name k that no prototype defines; x is not null or undefined.
GetField(x, k) ==
    IF x.t \in {"object", "array"} /\ k \in DOMAIN OwnFields(x) THEN OwnFields(x)[k]
    ELSE Undefined

\* x?.k
OptField(x, k) == IF x.t \in {"undefined", "null"} THEN Undefined ELSE GetField(x, k)

\* 'k' in x throws a TypeError when x is not an object.
InThrows(x) == x.t \notin {"object", "array"}

In(k, x) == k \in DOMAIN OwnFields(x)

\* { ...f, ...g }
Merge(f, g) == [k \in DOMAIN f \cup DOMAIN g |-> IF k \in DOMAIN g THEN g[k] ELSE f[k]]

\* JSON.parse(JSON.stringify(x)) for the value of a property: a property
\* whose value is undefined is left out, at every depth.
RECURSIVE ToJson(_)
ToJson(x) ==
    CASE x.t = "object" ->
            Obj([k \in {f \in DOMAIN x.v : x.v[f] # Undefined} |-> ToJson(x.v[k])])
      [] x.t = "array" ->
            Arr([i \in 1..Len(x.v) |-> IF x.v[i] = Undefined THEN Null ELSE ToJson(x.v[i])])
      [] x.t = "undefined" -> Null
      [] OTHER -> x

----------------------------------------------------------------------------
(* The band configuration store (statisticalBands.ts 4-15 and 195-323) *)

LevelConfig(enabled, sigmaValue, color, opacity, lineStyle) ==
    Obj([enabled |-> enabled, sigmaValue |-> Num(sigmaValue), color |-> color,
         opacity |-> opacity, lineWeight |-> Num("1"), lineStyle |-> Str(<<lineStyle>>)])

defaultStatisticalBandConfig ==
    Obj([enabled |-> Bool(FALSE),
         useVwapStyle |-> Bool(FALSE),
         levels |-> Obj([
            mean  |-> LevelConfig(Bool(TRUE), "0", Str(<<"#ffffff">>), Num("0.6"), "dotted"),
            band1 |-> LevelConfig(Bool(TRUE), "1", Str(<<"#4169e1">>), Num("0.3"), "solid"),
            band2 |-> LevelConfig(Bool(TRUE), "2", Str(<<"#ff6b35">>), Num("0.3"), "solid"),
            band3 |-> LevelConfig(Bool(TRUE), "2.5", Str(<<"#ffd23f">>), Num("0.3"), "solid"),
            band4 |-> LevelConfig(Bool(TRUE), "3", Str(<<"#ee4266">>), Num("0.3"), "solid")]),
         showFilledAreas |-> Bool(TRUE)])

bandKeys == <<"mean", "band1", "band2", "band3", "band4">>

\* 'sigma1' in levels || 'sigma2' in levels || 'sigma2_5' in levels || 'sigma3' in levels
IsOldFormat(levels) ==
    In("sigma1", levels) \/ In("sigma2", levels) \/ In("sigma2_5", levels)
        \/ In("sigma3", levels)

\* One band of the old format, carried to the new one.
MigratedBand(old, sigmaValue, color) ==
    LevelConfig(Or(OptField(old, "enabled"), Bool(TRUE)), sigmaValue,
                Or(OptField(old, "color"), Str(<<color>>)),
                Or(OptField(old, "opacity"), Num("0.3")), "solid")

\* As OldFormatMigration, but useVwapStyle is carried over from the old format.
OldFormatMigration_keepsVwapStyle(json, levels) ==
    Obj([enabled |-> Or(GetField(json, "enabled"), Bool(FALSE)),
         useVwapStyle |-> Or(GetField(json, "useVwapStyle"), Bool(FALSE)),
         showFilledAreas |-> Or(GetField(json, "showFilledAreas"), Bool(TRUE)),
         levels |-> Obj([
            mean  |-> LevelConfig(Bool(TRUE), "0", Str(<<"#ffffff">>), Num("0.6"), "dotted"),
            band1 |-> MigratedBand(GetField(levels, "sigma1"), "1", "#4169e1"),
            band2 |-> MigratedBand(GetField(levels, "sigma2"), "2", "#ff6b35"),
            band3 |-> MigratedBand(GetField(levels, "sigma2_5"), "2.5", "#ffd23f"),
            band4 |-> MigratedBand(GetField(levels, "sigma3"), "3", "#ee4266")])])

OldFormatMigration(json, levels) ==
    Obj([enabled |-> Or(GetField(json, "enabled"), Bool(FALSE)),
         useVwapStyle |-> Bool(FALSE),
         showFilledAreas |-> Or(GetField(json, "showFilledAreas"), Bool(TRUE)),
         levels |-> Obj([
            mean  |-> LevelConfig(Bool(TRUE), "0", Str(<<"#ffffff">>), Num("0.6"), "dotted"),
            band1 |-> MigratedBand(GetField(levels, "sigma1"), "1", "#4169e1"),
            band2 |-> MigratedBand(GetField(levels, "sigma2"), "2", "#ff6b35"),
            band3 |-> MigratedBand(GetField(levels, "sigma2_5"), "2.5", "#ffd23f"),
            band4 |-> MigratedBand(GetField(levels, "sigma3"), "3", "#ee4266")])])

needsMigration(json, levels) ==
    \/ GetField(json, "useVwapStyle") = Undefined
    \/ ~Truthy(GetField(levels, "mean"))
    \/ GetField(GetField(levels, "mean"), "sigmaValue") = Undefined
    \/ \E key \in Range(bandKeys) :
            /\ Truthy(GetField(levels, key))
            /\ GetField(GetField(levels, key), "sigmaValue") = Undefined

\* As migratedLevels, but the default band is spread over the stored one.
migratedLevels_defaultsWin(levels) ==
    LET own == OwnFields(levels)
        defaults == defaultStatisticalBandConfig.v.levels.v
    IN  [k \in DOMAIN own \cup Range(bandKeys) |->
            IF k \notin Range(bandKeys) THEN own[k]
            ELSE IF k \in DOMAIN own /\ Truthy(own[k])
            THEN Obj(Merge(OwnFields(own[k]), defaults[k].v))
            ELSE defaults[k]]

migratedLevels(levels) ==
    LET own == OwnFields(levels)
        defaults == defaultStatisticalBandConfig.v.levels.v
    IN  [k \in DOMAIN own \cup Range(bandKeys) |->
            IF k \notin Range(bandKeys) THEN own[k]
            ELSE IF k \in DOMAIN own /\ Truthy(own[k])
            THEN Obj(Merge(defaults[k].v, OwnFields(own[k])))
            ELSE defaults[k]]

MissingFieldMigration(json, levels) ==
    Obj(Merge(Merge(defaultStatisticalBandConfig.v, OwnFields(json)),
              [levels |-> Obj(migratedLevels(levels))]))

\* As MergeWithDefaults, but only the five bands are kept in levels.
MergeWithDefaults_fiveBandsOnly(json) ==
    Obj(Merge(Merge(defaultStatisticalBandConfig.v, OwnFields(json)),
              [levels |-> Obj([k \in Range(bandKeys) |->
                                Merge(defaultStatisticalBandConfig.v.levels.v,
                                      OwnFields(GetField(json, "levels")))[k]])]))

MergeWithDefaults(json) ==
    Obj(Merge(Merge(defaultStatisticalBandConfig.v, OwnFields(json)),
              [levels |-> Obj(Merge(defaultStatisticalBandConfig.v.levels.v,
                                    OwnFields(GetField(json, "levels"))))]))

\* The path getStatisticalBandConfig takes for the value getJsonItem returned.
ConfigPath(json) ==
    IF ~Truthy(json) THEN "absent"
    ELSE LET levels == GetField(json, "levels")
         IN  IF ~Truthy(levels) THEN "merge"
             ELSE IF InThrows(levels) THEN "caught"
             ELSE IF IsOldFormat(levels) THEN "oldFormat"
             ELSE IF needsMigration(json, levels) THEN "missingField"
             ELSE "merge"

\* As getStatisticalBandConfig, but the merge with the defaults is saved too.
getStatisticalBandConfig_alwaysSaves(json) ==
    LET levels == GetField(json, "levels")
        path == ConfigPath(json)
    IN  CASE path = "oldFormat" ->
                [ret |-> OldFormatMigration(json, levels),
                 saved |-> <<OldFormatMigration(json, levels)>>]
          [] path = "missingField" ->
                [ret |-> MissingFieldMigration(json, levels),
                 saved |-> <<MissingFieldMigration(json, levels)>>]
          [] path = "merge" ->
                [ret |-> MergeWithDefaults(json), saved |-> <<MergeWithDefaults(json)>>]
          [] OTHER -> [ret |-> defaultStatisticalBandConfig, saved |-> <<>>]

\* The configuration returned, and the configurations handed to
\* saveStatisticalBandConfig on the way.
getStatisticalBandConfig(json) ==
    LET levels == GetField(json, "levels")
        path == ConfigPath(json)
    IN  CASE path = "oldFormat" ->
                [ret |-> OldFormatMigration(json, levels),
                 saved |-> <<OldFormatMigration(json, levels)>>]
          [] path = "missingField" ->
                [ret |-> MissingFieldMigration(json, levels),
                 saved |-> <<MissingFieldMigration(json, levels)>>]
          [] path = "merge" -> [ret |-> MergeWithDefaults(json), saved |-> <<>>]
          [] OTHER -> [ret |-> defaultStatisticalBandConfig, saved |-> <<>>]

\* setJsonItem('statisticalBandConfig', config), for each configuration saved.
saveStatisticalBandConfig(store, configs) ==
    IF configs = <<>> THEN store ELSE ToJson(configs[Len(configs)])

----------------------------------------------------------------------------
(* The values found in storage: nothing, values that are not objects, and  *)
(* configurations of the old format, of the new format with fields or      *)
(* bands missing, and of the current format.                               *)

Prune(fields) == [k \in {f \in DOMAIN fields : fields[f] # Undefined} |-> fields[k]]

MeanValues ==
    {Undefined, Null, Obj([sigmaValue |-> Num("0")]), Obj([color |-> Str(<<"#111111">>)])}

Band1Values ==
    {Undefined, Null, Num("5"), Str(<<"x">>),
     Obj([sigmaValue |-> Num("1.5"), enabled |-> Bool(FALSE)]),
     Obj([enabled |-> Bool(FALSE), opacity |-> Num("0")])}

Band4Values == {Undefined, Obj([sigmaValue |-> Num("0")]), Obj([sigmaValue |-> Null])}

Sigma1Values ==
    {Undefined, Null,
     Obj([enabled |-> Bool(FALSE), color |-> Str(<<"#111111">>), opacity |-> Num("0")])}

Sigma2Values == {Undefined, Obj([color |-> Str(<<"#222222">>)])}

CustomValues == {Undefined, Num("7")}

LevelsValues ==
    {Undefined, Null, Num("5"), Str(<<"x">>), Arr(<<>>)}
        \cup {Obj(Prune([mean |-> mean, band1 |-> band1, band4 |-> band4,
                         sigma1 |-> sigma1, sigma2 |-> sigma2, custom |-> custom])) :
                mean \in MeanValues, band1 \in Band1Values, band4 \in Band4Values,
                sigma1 \in Sigma1Values, sigma2 \in Sigma2Values, custom \in CustomValues}

\* enabled and showFilledAreas as they are found together.
FlagValues ==
    {[enabled |-> Undefined, showFilledAreas |-> Undefined],
     [enabled |-> Bool(TRUE), showFilledAreas |-> Bool(FALSE)],
     [enabled |-> Bool(FALSE), showFilledAreas |-> Undefined],
     [enabled |-> Bool(FALSE), showFilledAreas |-> Bool(FALSE)]}

PersistedValues ==
    {Null, Num("0"), Num("5"), Str(<<"x">>), Bool(TRUE), Arr(<<>>), Arr(<<Num("1")>>)}
        \cup {Obj(Prune([enabled |-> flags.enabled, useVwapStyle |-> useVwapStyle,
                         showFilledAreas |-> flags.showFilledAreas, levels |-> levels])) :
                flags \in FlagValues, useVwapStyle \in {Undefined, Bool(FALSE), Bool(TRUE)},
                levels \in LevelsValues}

\* The name under which the band configuration is read and written.
BandConfigName == <<"statisticalBandConfig">>

\* The key under which the tooltip's show state is read and written.
TooltipKey == <<"HL_", "chartTooltipShowState">>

\* A call of the storage: the function called and the key it is given.
StorageCall(fn, key) == [fn |-> fn, key |-> key]

\* The application reads the configuration: getStatisticalBandConfig().
LoadConfig ==
    /\ LET r == getStatisticalBandConfig(storage)
       IN  /\ parsedConfig' = storage
           /\ resolved' = r.ret
           /\ saved' = r.saved
           /\ storage' = saveStatisticalBandConfig(storage, r.saved)
           /\ storageCalls' = <<StorageCall("getJsonItem", BandConfigName)>>
                                \o [i \in 1..Len(r.saved) |->
                                        StorageCall("setJsonItem", BandConfigName)]
    /\ UNCHANGED <<showTooltip, tooltipStored, chartVars, bandVars>>

\* The application saves the configuration it holds:
\* saveStatisticalBandConfig(config).
SaveConfig ==
    /\ resolved # Undefined
    /\ storage' = saveStatisticalBandConfig(storage, <<resolved>>)
    /\ storageCalls' = <<StorageCall("setJsonItem", BandConfigName)>>
    /\ UNCHANGED <<parsedConfig, resolved, saved, showTooltip, tooltipStored,
                   chartVars, bandVars>>

----------------------------------------------------------------------------
(* The tooltip's show state: it is restored from the storage when the      *)
(* component mounts, and written back whenever it changes.                  *)

\* JSON.stringify(showTooltip)
StringifyFlag(b) == Str(<<IF b.v THEN "true" ELSE "false">>)

\* JSON.parse(saved), for the items that StringifyFlag writes.
ParseFlag(item) == Bool(item.v = <<"true">>)

TooltipItems == {Null, StringifyFlag(Bool(FALSE)), StringifyFlag(Bool(TRUE))}

\* The effect that writes the show state, for the value v of a render.
SaveTooltip(v) == StorageCall("localStorage.setItem", TooltipKey)

\* The component mounts: the first render has showTooltip false, the load
\* effect reads the item and sets the state, the save effect writes the
\* state of the first render, and writes again after the render that follows
\* a change of the state.
MountTooltip ==
    /\ showTooltip = Undefined
    /\ LET first == Bool(FALSE)
           loaded == IF tooltipStored # Null THEN ParseFlag(tooltipStored) ELSE first
       IN  /\ showTooltip' = loaded
           /\ tooltipStored' = StringifyFlag(loaded)
           /\ storageCalls' = <<StorageCall("localStorage.getItem", TooltipKey),
                                 SaveTooltip(first)>>
                                \o (IF loaded # first THEN <<SaveTooltip(loaded)>> ELSE <<>>)
    /\ UNCHANGED <<storage, parsedConfig, resolved, saved, chartVars, bandVars>>

\* The tooltip checkbox is clicked: setShowTooltip(!showTooltip).
ToggleTooltip ==
    /\ showTooltip # Undefined
    /\ showTooltip' = Bool(~showTooltip.v)
    /\ tooltipStored' = StringifyFlag(showTooltip')
    /\ storageCalls' = <<SaveTooltip(showTooltip')>>
    /\ UNCHANGED <<storage, parsedConfig, resolved, saved, chartVars, bandVars>>

----------------------------------------------------------------------------
(* The band calculator on its own: a caller that holds a list of points,   *)
(* a list of visible instruments and a mode, changes one of them and calls *)
(* calculateStatisticalBands again.                                        *)

MaxBandPoints == 2

BandTimes == {1, 2}

\* The points a caller may hold: those of the batches, under either symbol.
BandPointPool ==
    {[Point(ca, t) EXCEPT !.symbol = SymbolOf(other)] :
        ca \in CAs, t \in BandTimes, other \in CAs}

\* Snapshot mode, and cumulative mode with the slider at 0, at 50, and at
\* 50 without a stable timestamp range.
BandModes ==
    {[config |-> BandConfig(TRUE, FALSE), sliderPosition |-> 0,
      stableTimestampRange |-> stableTimestampRange],
     [config |-> BandConfig(TRUE, TRUE), sliderPosition |-> 0,
      stableTimestampRange |-> stableTimestampRange],
     [config |-> BandConfig(TRUE, TRUE), sliderPosition |-> 50,
      stableTimestampRange |-> stableTimestampRange],
     [config |-> BandConfig(TRUE, TRUE), sliderPosition |-> 50,
      stableTimestampRange |-> NoRange]}

NoBandCall ==
    [data |-> <<>>, visibleSymbols |-> <<>>,
     mode |-> [config |-> BandConfig(TRUE, FALSE), sliderPosition |-> 0,
               stableTimestampRange |-> stableTimestampRange]]

\* calculateStatisticalBands(data, visibleSymbols, config, sliderPosition,
\* stableTimestampRange)
CalculateBands(args) ==
    /\ bandArgs' = args
    /\ bandOutput' = calculateStatisticalBands(args.data, args.visibleSymbols,
                          args.mode.config, args.mode.sliderPosition,
                          args.mode.stableTimestampRange)
    /\ UNCHANGED <<chartVars, configVars>>

AddPoint(d) ==
    /\ Len(bandArgs.data) < MaxBandPoints
    /\ CalculateBands([bandArgs EXCEPT !.data = Append(@, d)])

RemovePoint(i) ==
    /\ i \in 1..Len(bandArgs.data)
    /\ CalculateBands([bandArgs EXCEPT
            !.data = SubSeq(@, 1, i - 1) \o SubSeq(@, i + 1, Len(@))])

RenamePoint(i, ca) ==
    /\ i \in 1..Len(bandArgs.data)
    /\ bandArgs.data[i].symbol # SymbolOf(ca)
    /\ CalculateBands([bandArgs EXCEPT !.data[i].symbol = SymbolOf(ca)])

ShowInstruments(visible) ==
    /\ visible # bandArgs.visibleSymbols
    /\ CalculateBands([bandArgs EXCEPT !.visibleSymbols = visible])

SetBandMode(mode) ==
    /\ mode # bandArgs.mode
    /\ CalculateBands([bandArgs EXCEPT !.mode = mode])

----------------------------------------------------------------------------
Init ==
    /\ data \in DataSets
    /\ chartType \in ChartTypes
    /\ visibleTokens \in VisibleSets
    /\ tokenColors = EmptyObject
    /\ tokenColorsByCA = EmptyObject
    /\ tokenLineWeights = EmptyObject
    /\ statisticalBandConfig = DefaultBandConfig
    /\ sliderPosition = 0
    /\ proximityMode \in ProximityModes
    /\ proximityIndicatorData = <<>>
    /\ phase = "new"
    /\ chartRef = FALSE
    /\ chart = <<>>
    /\ seriesRefs = <<>>
    /\ tokenIndicatorSeriesRefs = <<>>
    /\ tokenMarkersRefs = <<>>
    /\ lastReaction = "none"
    /\ calls = <<>>
    /\ error = FALSE
    /\ storage = Null
    /\ parsedConfig = Undefined
    /\ resolved = Undefined
    /\ saved = <<>>
    /\ showTooltip = Undefined
    /\ tooltipStored = Null
    /\ storageCalls = <<>>
    /\ bandArgs = NoBandCall
    /\ bandOutput = <<>>

Next ==
    \/ Mount
    \/ \E d \in DataSets : NewData(d)
    \/ \E ca \in CAs : ToggleVisibility(ca)
    \/ \E ct \in ChartTypes : ChangeChartType(ct)
    \/ \E c \in TokenColorSettings : ChangeTokenColors(c)
    \/ \E w \in LineWeightMaps : ChangeLineWeights(w)
    \/ \E c \in BandConfigs : ChangeBandConfig(c)
    \/ \E pos \in SliderPositions : ChangeSlider(pos)
    \/ \E mode \in ProximityModes : ChangeProximityMode(mode)
    \/ \E pd \in ProximityDataSets : ChangeProximityData(pd)
    \/ Resize
    \/ Unmount

Spec == Init /\ [][Next]_vars

\* The configuration store on its own: the chart is not mounted, and the
\* storage holds any of the persisted values.
InitConfig ==
    /\ data = <<>>
    /\ chartType = "line"
    /\ visibleTokens = <<>>
    /\ tokenColors = EmptyObject
    /\ tokenColorsByCA = EmptyObject
    /\ tokenLineWeights = EmptyObject
    /\ statisticalBandConfig = DefaultBandConfig
    /\ sliderPosition = 0
    /\ proximityMode = "disabled"
    /\ proximityIndicatorData = <<>>
    /\ phase = "new"
    /\ chartRef = FALSE
    /\ chart = <<>>
    /\ seriesRefs = <<>>
    /\ tokenIndicatorSeriesRefs = <<>>
    /\ tokenMarkersRefs = <<>>
    /\ lastReaction = "none"
    /\ calls = <<>>
    /\ error = FALSE
    /\ storage \in PersistedValues
    /\ parsedConfig = Undefined
    /\ resolved = Undefined
    /\ saved = <<>>
    /\ showTooltip = Undefined
    /\ tooltipStored = Null
    /\ storageCalls = <<>>
    /\ bandArgs = NoBandCall
    /\ bandOutput = <<>>

NextConfig ==
    \/ LoadConfig
    \/ SaveConfig

SpecConfig == InitConfig /\ [][NextConfig]_vars

\* The configurations found in storage that have no levels.
StoredWithoutLevels ==
    {v \in PersistedValues : v.t = "object" => "levels" \notin DOMAIN v.v}

\* The storage as a whole: the chart is not mounted, the storage holds any
\* of the tooltip items and any of the configurations without levels.
InitStorage ==
    /\ data = <<>>
    /\ chartType = "line"
    /\ visibleTokens = <<>>
    /\ tokenColors = EmptyObject
    /\ tokenColorsByCA = EmptyObject
    /\ tokenLineWeights = EmptyObject
    /\ statisticalBandConfig = DefaultBandConfig
    /\ sliderPosition = 0
    /\ proximityMode = "disabled"
    /\ proximityIndicatorData = <<>>
    /\ phase = "new"
    /\ chartRef = FALSE
    /\ chart = <<>>
    /\ seriesRefs = <<>>
    /\ tokenIndicatorSeriesRefs = <<>>
    /\ tokenMarkersRefs = <<>>
    /\ lastReaction = "none"
    /\ calls = <<>>
    /\ error = FALSE
    /\ storage \in StoredWithoutLevels
    /\ parsedConfig = Undefined
    /\ resolved = Undefined
    /\ saved = <<>>
    /\ showTooltip = Undefined
    /\ tooltipStored \in TooltipItems
    /\ storageCalls = <<>>
    /\ bandArgs = NoBandCall
    /\ bandOutput = <<>>

NextStorage ==
    \/ LoadConfig
    \/ SaveConfig
    \/ MountTooltip
    \/ ToggleTooltip

SpecStorage == InitStorage /\ [][NextStorage]_vars

(* The band calculator over chosen prices: a caller that holds at most one *)
(* point per instrument and timestamp, in any order.                       *)

\* A point of instrument ca at time t that closed at close.
ValuePoint(ca, t, close) ==
    [CA |-> ca, symbol |-> <<"S">> \o ca, timestamp |-> t,
     open |-> close - 1, high |-> close + 2, low |-> close - 3, close |-> close]

\* Three instruments at time 1, closing apart (10, 12) or together (23),
\* and one of them again at time 2.
SnapshotPool ==
    {ValuePoint(<<"A">>, 1, 10), ValuePoint(<<"A">>, 1, 23),
     ValuePoint(<<"B">>, 1, 12), ValuePoint(<<"B">>, 1, 23),
     ValuePoint(<<"C">>, 1, 23), ValuePoint(<<"A">>, 2, 10)}

\* All three instruments visible, or C hidden.
ValueVisibleSets == { << <<"A">>, <<"B">>, <<"C">> >>, << <<"A">>, <<"B">> >> }

\* The sigma values the user has set: band1 on the mean, band2 at half a
\* deviation, band3 and band4 as shipped.
CustomLevels ==
    [BandLevels EXCEPT !.band1.sigmaValue = <<0, 1>>, !.band2.sigmaValue = <<1, 2>>]

\* defaultStatisticalBandConfig's levels: every band switched on.
ShippedLevels ==
    [BandLevels EXCEPT !.band2.enabled = TRUE, !.band3.enabled = TRUE,
                       !.band4.enabled = TRUE]

LevelProfiles == {BandLevels, ShippedLevels, CustomLevels}

SnapshotModes ==
    {[config |-> [BandConfig(TRUE, FALSE) EXCEPT !.levels = levels],
      sliderPosition |-> 0, stableTimestampRange |-> stableTimestampRange] :
        levels \in {BandLevels, CustomLevels}}

\* The caller holds a point of d's instrument at d's time.
Holds(points, d) ==
    \E i \in 1..Len(points) :
        points[i].CA = d.CA /\ points[i].timestamp = d.timestamp

\* The caller receives a point and puts it last.
PutLast(d) ==
    /\ ~Holds(bandArgs.data, d)
    /\ CalculateBands([bandArgs EXCEPT !.data = Append(@, d)])

\* The caller receives a point and puts it first.
PutFirst(d) ==
    /\ ~Holds(bandArgs.data, d)
    /\ CalculateBands([bandArgs EXCEPT !.data = <<d>> \o @])

\* The caller replaces the point it holds of d's instrument and time.
Replace(i, d) ==
    /\ i \in 1..Len(bandArgs.data)
    /\ bandArgs.data[i].CA = d.CA
    /\ bandArgs.data[i].timestamp = d.timestamp
    /\ bandArgs.data[i] # d
    /\ CalculateBands([bandArgs EXCEPT !.data[i] = d])

----------------------------------------------------------------------------
(* The band calculator in both modes: a caller that holds points before,   *)
(* at and after the middle of the stable timestamp range.                  *)

\* A alone at times -40 and 60, A and B together at time 50.
ValuePool ==
    {ValuePoint(<<"A">>, 0 - 40, 10), ValuePoint(<<"A">>, 50, 12),
     ValuePoint(<<"B">>, 50, 23), ValuePoint(<<"A">>, 60, 10)}

\* Both instruments visible, or B hidden.
BasketSets == { << <<"A">>, <<"B">> >>, << <<"A">> >> }

\* The stable timestamp ranges the caller passes: from 0 to 100, and one
\* whose middle is 0.
StableRanges ==
    {[minTimestamp |-> 0, maxTimestamp |-> 100],
     [minTimestamp |-> 0 - 60, maxTimestamp |-> 60]}

\* Where the caller anchors the accumulation: nowhere (slider at 0), at the
\* middle of a stable range, and at the middle without a stable range.
Anchors ==
    {[sliderPosition |-> 0, stableTimestampRange |-> [minTimestamp |-> 0, maxTimestamp |-> 100]]}
        \cup {[sliderPosition |-> 50, stableTimestampRange |-> range] :
                range \in StableRanges \cup {NoRange}}

\* The band settings: the shipped levels with the bands switched off as a
\* whole or not, with band2 to band4 switched off, and with the sigma values
\* the user has set.
ValueConfigs(vwap) ==
    {[BandConfig(TRUE, vwap) EXCEPT !.levels = levels] : levels \in LevelProfiles}
        \cup {[BandConfig(FALSE, vwap) EXCEPT !.levels = ShippedLevels]}

ValueSnapshotModes ==
    {[config |-> config, sliderPosition |-> 0,
      stableTimestampRange |-> [minTimestamp |-> 0, maxTimestamp |-> 100]] :
        config \in ValueConfigs(FALSE)}

\* Every band setting without an anchor and with the anchor at the middle of
\* 0 to 100; the other anchors with one band setting.
ValueCumulativeModes ==
    {[config |-> config, sliderPosition |-> slider,
      stableTimestampRange |-> [minTimestamp |-> 0, maxTimestamp |-> 100]] :
        config \in ValueConfigs(TRUE), slider \in SliderPositions}
    \cup {[config |-> BandConfig(TRUE, TRUE), sliderPosition |-> anchor.sliderPosition,
           stableTimestampRange |-> anchor.stableTimestampRange] : anchor \in Anchors}

ValueModes == ValueSnapshotModes \cup ValueCumulativeModes

----------------------------------------------------------------------------
(* The registries over instruments whose identities and symbols share      *)
(* text, and a chart that has lost a series.                               *)

\* The series objects the registries hold.
Registered == Handles(seriesRefs) \cup Handles(tokenIndicatorSeriesRefs)

\* The chart no longer holds a series a registry still refers to; no other
\* series is missing at the time.
LoseSeries(h) ==
    /\ phase = "mounted"
    /\ chartRef
    /\ Registered \subseteq DOMAIN chart
    /\ h \in Registered
    /\ chart' = Detach(chart, h)
    /\ lastReaction' = "seriesLost"
    /\ calls' = <<>>
    /\ UNCHANGED <<props, chartRef, phase, seriesRefs, tokenIndicatorSeriesRefs,
                   tokenMarkersRefs, error>>
    /\ UNCHANGED <<configVars, bandVars>>

----------------------------------------------------------------------------
\* The band calculator on its own: the chart is not mounted, the storage is
\* empty, and no call has been made.
InitBands ==
    /\ data = <<>>
    /\ chartType = "line"
    /\ visibleTokens = <<>>
    /\ tokenColors = EmptyObject
    /\ tokenColorsByCA = EmptyObject
    /\ tokenLineWeights = EmptyObject
    /\ statisticalBandConfig = DefaultBandConfig
    /\ sliderPosition = 0
    /\ proximityMode = "disabled"
    /\ proximityIndicatorData = <<>>
    /\ phase = "new"
    /\ chartRef = FALSE
    /\ chart = <<>>
    /\ seriesRefs = <<>>
    /\ tokenIndicatorSeriesRefs = <<>>
    /\ tokenMarkersRefs = <<>>
    /\ lastReaction = "none"
    /\ calls = <<>>
    /\ error = FALSE
    /\ storage = Null
    /\ parsedConfig = Undefined
    /\ resolved = Undefined
    /\ saved = <<>>
    /\ showTooltip = Undefined
    /\ tooltipStored = Null
    /\ storageCalls = <<>>
    /\ bandArgs \in {[NoBandCall EXCEPT !.mode = mode] : mode \in BandModes}
    /\ bandOutput = <<>>

NextBands ==
    \/ \E d \in BandPointPool : AddPoint(d)
    \/ \E i \in 1..MaxBandPoints : RemovePoint(i)
    \/ \E i \in 1..MaxBandPoints, ca \in CAs : RenamePoint(i, ca)
    \/ \E visible \in VisibleSets : ShowInstruments(visible)
    \/ \E mode \in BandModes : SetBandMode(mode)

SpecBands == InitBands /\ [][NextBands]_vars

----------------------------------------------------------------------------
\* The chart is not mounted and the storage is empty.
Unmounted ==
    /\ data = <<>>
    /\ chartType = "line"
    /\ visibleTokens = <<>>
    /\ tokenColors = EmptyObject
    /\ tokenColorsByCA = EmptyObject
    /\ tokenLineWeights = EmptyObject
    /\ statisticalBandConfig = DefaultBandConfig
    /\ sliderPosition = 0
    /\ proximityMode = "disabled"
    /\ proximityIndicatorData = <<>>
    /\ phase = "new"
    /\ chartRef = FALSE
    /\ chart = <<>>
    /\ seriesRefs = <<>>
    /\ tokenIndicatorSeriesRefs = <<>>
    /\ tokenMarkersRefs = <<>>
    /\ lastReaction = "none"
    /\ calls = <<>>
    /\ error = FALSE
    /\ storage = Null
    /\ parsedConfig = Undefined
    /\ resolved = Undefined
    /\ saved = <<>>
    /\ showTooltip = Undefined
    /\ tooltipStored = Null
    /\ storageCalls = <<>>

\* Snapshot mode over chosen prices: no call has been made.
InitSnapshot ==
    /\ Unmounted
    /\ bandArgs \in {[data |-> <<>>, visibleSymbols |-> visible, mode |-> mode] :
                        visible \in ValueVisibleSets, mode \in SnapshotModes}
    /\ bandOutput = <<>>

NextSnapshot ==
    \/ \E d \in SnapshotPool : PutLast(d)
    \/ \E d \in SnapshotPool : PutFirst(d)
    \/ \E i \in 1..Len(bandArgs.data), d \in SnapshotPool : Replace(i, d)
    \/ \E i \in 1..Len(bandArgs.data) : RemovePoint(i)
    \/ \E visible \in ValueVisibleSets : ShowInstruments(visible)
    \/ \E mode \in SnapshotModes : SetBandMode(mode)

SpecSnapshot == InitSnapshot /\ [][NextSnapshot]_vars

\* Both modes over chosen prices: no call has been made.
InitValues ==
    /\ Unmounted
    /\ bandArgs \in {[data |-> <<>>, visibleSymbols |-> visible, mode |-> mode] :
                        visible \in BasketSets, mode \in ValueModes}
    /\ bandOutput = <<>>

NextValues ==
    \/ \E d \in ValuePool : PutLast(d)
    \/ \E d \in ValuePool : PutFirst(d)
    \/ \E i \in 1..Len(bandArgs.data) : RemovePoint(i)
    \/ \E visible \in BasketSets : ShowInstruments(visible)
    \/ \E mode \in ValueModes : SetBandMode(mode)

SpecValues == InitValues /\ [][NextValues]_vars

\* The chart over the batches whose identities and symbols share text.
InitRegistry ==
    /\ data \in KeyDataSets
    /\ chartType = "line"
    /\ visibleTokens \in KeyVisibleSets
    /\ tokenColors = EmptyObject
    /\ tokenColorsByCA = EmptyObject
    /\ tokenLineWeights = EmptyObject
    /\ statisticalBandConfig = DefaultBandConfig
    /\ sliderPosition = 0
    /\ proximityMode \in ProximityModes
    /\ proximityIndicatorData = <<>>
    /\ phase = "new"
    /\ chartRef = FALSE
    /\ chart = <<>>
    /\ seriesRefs = <<>>
    /\ tokenIndicatorSeriesRefs = <<>>
    /\ tokenMarkersRefs = <<>>
    /\ lastReaction = "none"
    /\ calls = <<>>
    /\ error = FALSE
    /\ storage = Null
    /\ parsedConfig = Undefined
    /\ resolved = Undefined
    /\ saved = <<>>
    /\ showTooltip = Undefined
    /\ tooltipStored = Null
    /\ storageCalls = <<>>
    /\ bandArgs = NoBandCall
    /\ bandOutput = <<>>

NextRegistry ==
    \/ Mount
    \/ \E d \in KeyDataSets : NewData(d)
    \/ \E ca \in CAs : ToggleVisibility(ca)
    \/ \E c \in {BandConfig(en, FALSE) : en \in BOOLEAN} : ChangeBandConfig(c)
    \/ \E mode \in ProximityModes : ChangeProximityMode(mode)
    \/ \E h \in Registered : LoseSeries(h)

SpecRegistry == InitRegistry /\ [][NextRegistry]_vars

\* The chart over the batches that repeat timestamps.
InitSeries ==
    /\ data \in RepeatedDataSets
    /\ chartType \in ChartTypes
    /\ visibleTokens \in VisibleSets
    /\ tokenColors = EmptyObject
    /\ tokenColorsByCA = EmptyObject
    /\ tokenLineWeights = EmptyObject
    /\ statisticalBandConfig = DefaultBandConfig
    /\ sliderPosition = 0
    /\ proximityMode = "disabled"
    /\ proximityIndicatorData = <<>>
    /\ phase = "new"
    /\ chartRef = FALSE
    /\ chart = <<>>
    /\ seriesRefs = <<>>
    /\ tokenIndicatorSeriesRefs = <<>>
    /\ tokenMarkersRefs = <<>>
    /\ lastReaction = "none"
    /\ calls = <<>>
    /\ error = FALSE
    /\ storage = Null
    /\ parsedConfig = Undefined
    /\ resolved = Undefined
    /\ saved = <<>>
    /\ showTooltip = Undefined
    /\ tooltipStored = Null
    /\ storageCalls = <<>>
    /\ bandArgs = NoBandCall
    /\ bandOutput = <<>>

NextSeries ==
    \/ Mount
    \/ \E d \in RepeatedDataSets : NewData(d)
    \/ \E ca \in CAs : ToggleVisibility(ca)
    \/ \E ct \in ChartTypes : ChangeChartType(ct)

SpecSeries == InitSeries /\ [][NextSeries]_vars

\* The chart with a library that may fail a call of the indicator lifecycle
\* and may lose a series.
InitFaults ==
    /\ data \in {Batch({<<"A">>}, 1), Batch(CAs, 1)}
    /\ chartType = "line"
    /\ visibleTokens \in VisibleSets
    /\ tokenColors = EmptyObject
    /\ tokenColorsByCA = EmptyObject
    /\ tokenLineWeights = EmptyObject
    /\ statisticalBandConfig = DefaultBandConfig
    /\ sliderPosition = 0
    /\ proximityMode \in ProximityModes
    /\ proximityIndicatorData = <<>>
    /\ phase = "new"
    /\ chartRef = FALSE
    /\ chart = <<>>
    /\ seriesRefs = <<>>
    /\ tokenIndicatorSeriesRefs = <<>>
    /\ tokenMarkersRefs = <<>>
    /\ lastReaction = "none"
    /\ calls = <<>>
    /\ error = FALSE
    /\ storage = Null
    /\ parsedConfig = Undefined
    /\ resolved = Undefined
    /\ saved = <<>>
    /\ showTooltip = Undefined
    /\ tooltipStored = Null
    /\ storageCalls = <<>>
    /\ bandArgs = NoBandCall
    /\ bandOutput = <<>>

NextFaults ==
    \/ Mount
    \/ \E ca \in CAs : ToggleVisibility(ca)
    \/ \E ca \in CAs, fault \in Faults : ToggleVisibilityFailing(ca, fault)
    \/ \E mode \in ProximityModes : ChangeProximityMode(mode)
    \/ \E h \in Handles(tokenIndicatorSeriesRefs) : LoseSeries(h)

SpecFaults == InitFaults /\ [][NextFaults]_vars

----------------------------------------------------------------------------
(* Observations the properties are stated with *)

IsIndicatorHandle(h) == Len(h) = 2 /\ Head(h[1]) = "indicator"

IsBandHandle(h) == Len(h) = 2 /\ StartsWithBand(h[1])

\* A handle of an instrument's series in the price pane.
IsPrimaryHandle(h) == Len(h) = 2 /\ ~IsIndicatorHandle(h) /\ ~IsBandHandle(h)

\* The entries of seriesRefs that plot instruments (the others plot bands).
PrimaryEntries(reg) == SelectSeq(reg, LAMBDA e : ~StartsWithBand(e.k))

\* The instrument a primary key names.
InstrumentOf(key) == Part(Split(key), 1)

EntriesOf(reg, ca) == SelectSeq(PrimaryEntries(reg), LAMBDA e : InstrumentOf(e.k) = ca)

HasData(d, ca) == \E i \in 1..Len(d) : d[i].CA = ca

Times(cs, call) == Cardinality({i \in 1..Len(cs) : cs[i] = call})

IndicatorSeriesOf(ch) == {h \in DOMAIN ch : ch[h].pane = 1}

KindFor(ct) == [line |-> "Line", candlestick |-> "Candlestick", ohlc |-> "Bar"][ct]

----------------------------------------------------------------------------
(* Properties *)

\* C1: a reaction to a visibility toggle alone creates and removes no series
\* of the price pane, and every instrument held in seriesRefs before the
\* toggle is held after it under the same key with the same handle.
C1_ToggleReusesSeries ==
    [][(lastReaction' = "visibility" /\ phase' = "mounted")
        => /\ \A c \in Range(calls') :
                c.op \in {"addSeries", "removeSeries"} => IsIndicatorHandle(c.h)
           /\ \A e \in Range(PrimaryEntries(seriesRefs)) :
                MapHas(seriesRefs', e.k) /\ MapGet(seriesRefs', e.k) = e.v]_vars

\* C2: a primary series attached to the chart is detached by a reaction only
\* when the chart type changes or the instrument's data is gone; reactions
\* to new points, colours, line weights, band configuration, the slider or a
\* visibility toggle leave it attached.
C2_SeriesRemovedOnlyWhenDue ==
    [][phase' = "mounted"
        => \A e \in Range(PrimaryEntries(seriesRefs)) :
              (e.v \in DOMAIN chart /\ e.v \notin DOMAIN chart')
                  => (chartType' # chartType \/ ~HasData(data', InstrumentOf(e.k)))]_vars

\* C3: a reaction to a change of token colours, of line weights or of the
\* visibility set (the data unchanged) calls setData on no primary series.
C3_StylingSetsNoData ==
    [][(lastReaction' \in {"tokenColors", "lineWeights", "visibility"}
            /\ phase' = "mounted")
        => \A c \in Range(calls') : c.op = "setData" => ~IsPrimaryHandle(c.h)]_vars

\* C4: a reaction to new points for the same instruments leaves every
\* primary series in place with the style options it had, and creates no
\* series (the one call of the effect that writes style options).
C4_DataKeepsStyle ==
    [][(lastReaction' = "data" /\ phase' = "mounted"
            /\ \A ca \in CAs : HasData(data, ca) <=> HasData(data', ca))
        => /\ \A e \in Range(PrimaryEntries(seriesRefs)) :
                /\ e.v \in DOMAIN chart'
                /\ e.v \in DOMAIN chart => chart'[e.v].options = chart[e.v].options
           /\ \A c \in Range(calls') : c.op = "addSeries" => ~IsPrimaryHandle(c.h)]_vars

C6_EveryInstrumentKeepsSeries ==
    (lastReaction = "data" /\ phase = "mounted" /\ chartRef)
        => \A ca \in CAs :
              HasData(data, ca) =>
                  /\ Len(EntriesOf(seriesRefs, ca)) = 1
                  /\ LET h == EntriesOf(seriesRefs, ca)[1].v
                     IN  /\ h \in DOMAIN chart
                         /\ StyleState(chart[h]) =
                                IF Includes(visibleTokens, ca)
                                THEN "visible" ELSE "transparent"

C9_LifecycleIdempotent ==
    [][(phase = "mounted" /\ visibleTokens' = visibleTokens
            /\ proximityMode' = proximityMode)
        => /\ tokenIndicatorSeriesRefs' = tokenIndicatorSeriesRefs
           /\ \A c \in Range(calls') : c.op = "addSeries" => ~IsIndicatorHandle(c.h)
           /\ \A g, h \in IndicatorSeriesOf(chart') : g[1] = h[1] => g = h]_vars

\* The lifecycle reaction has just run again because the token colours
\* changed, with two indicator series registered.
C9_Witness ==
    /\ lastReaction = "tokenColors" /\ chartRef /\ isEnabled(Props)
    /\ tokenColorsByCA # EmptyObject
    /\ Len(tokenIndicatorSeriesRefs) = 2

\* C10: a chart-type change leaves tokenIndicatorSeriesRefs and
\* tokenMarkersRefs unchanged, creates and removes no indicator series, and
\* leaves every indicator series attached as it was.
C10_ChartTypeSparesIndicators ==
    [][chartType' # chartType
        => /\ tokenIndicatorSeriesRefs' = tokenIndicatorSeriesRefs
           /\ tokenMarkersRefs' = tokenMarkersRefs
           /\ \A c \in Range(calls') :
                c.op \in {"addSeries", "removeSeries"} => ~IsIndicatorHandle(c.h)
           /\ IndicatorSeriesOf(chart') = IndicatorSeriesOf(chart)
           /\ \A h \in IndicatorSeriesOf(chart) : chart'[h] = chart[h]]_vars

\* A chart-type change has rebuilt the primary series while two indicator
\* series were registered.
C10_Witness ==
    /\ lastReaction = "chartType" /\ chartRef
    /\ Len(tokenIndicatorSeriesRefs) = 2
    /\ \E c \in Range(calls) : c.op = "removeSeries"
    /\ \E c \in Range(calls) : c.op = "addSeries"

\* C11: the marker list a series holds, as setMarkers received it, has no
\* two entries with the same timestamp.
C11_MarkerTimesDistinct ==
    \A h \in DOMAIN chart :
        \A i, j \in 1..Len(chart[h].markers) :
            i # j => chart[h].markers[i].time # chart[h].markers[j].time

\* C12: in the calls of a reaction, every setData on a series and every
\* applyOptions on the chart is followed at once by the call that switches
\* automatic rescaling of the price axis off.
C12_RescaleOffAfterEveryUpdate ==
    \A i \in 1..Len(calls) :
        calls[i].op \in {"setData", "chart.applyOptions"}
            => (i < Len(calls) /\ calls[i + 1].op = "priceScale.applyOptions")

----------------------------------------------------------------------------
(* Observations of the configuration store *)

\* A load has run: resolved is what it returned for parsedConfig.
Loaded == resolved # Undefined

LevelsOf(config) == GetField(config, "levels")

BandOf(config, key) == GetField(LevelsOf(config), key)

\* C13: a load returns a configuration whatever the storage holds; when the
\* stored value is not an object the configuration is the default one, and
\* when its levels are there but are not an object the levels are the
\* default levels.
C13_MalformedFallsBackToDefault ==
    Loaded =>
        /\ resolved.t = "object"
        /\ parsedConfig.t # "object" => resolved = defaultStatisticalBandConfig
        /\ (parsedConfig.t = "object" /\ In("levels", parsedConfig)
                /\ LevelsOf(parsedConfig).t \notin {"object", "array"})
            => LevelsOf(resolved) = LevelsOf(defaultStatisticalBandConfig)

\* C14: in every configuration a load returns, each of mean, band1, band2,
\* band3 and band4 is a level object whose sigmaValue is a number.
C14_FiveBandsWithSigma ==
    Loaded =>
        \A key \in Range(bandKeys) :
            /\ BandOf(resolved, key).t = "object"
            /\ GetField(BandOf(resolved, key), "sigmaValue").t = "number"

\* C15: a load that reads what the load before it returned returns it again:
\* the same top-level fields, the same levels, the same values.
C15_ResolveIdempotent ==
    [][(Loaded /\ storage = resolved) => resolved' = resolved]_vars

\* A load has read a configuration that an earlier load produced by
\* migration, unknown level key included, and has returned it unchanged.
C15_Witness ==
    /\ Loaded
    /\ parsedConfig = resolved
    /\ In("custom", LevelsOf(resolved))
    /\ BandOf(resolved, "band1") # BandOf(defaultStatisticalBandConfig, "band1")

\* The levels of the stored configuration hold sigma1 and sigma2 and nothing
\* else.
OnlySigma1AndSigma2(config) ==
    /\ config.t = "object"
    /\ LevelsOf(config).t = "object"
    /\ DOMAIN LevelsOf(config).v = {"sigma1", "sigma2"}

\* C16: a load of a configuration whose levels hold only sigma1 and sigma2
\* returns the five bands, with sigmaValue 1 for band1, 2 for band2, 2.5 for
\* band3 and 3 for band4, band3 and band4 in their default colours, the
\* default mean level, and useVwapStyle false.
C16_LegacyMigration ==
    (Loaded /\ OnlySigma1AndSigma2(parsedConfig)) =>
        /\ DOMAIN LevelsOf(resolved).v = Range(bandKeys)
        /\ GetField(BandOf(resolved, "band1"), "sigmaValue") = Num("1")
        /\ GetField(BandOf(resolved, "band2"), "sigmaValue") = Num("2")
        /\ GetField(BandOf(resolved, "band3"), "sigmaValue") = Num("2.5")
        /\ GetField(BandOf(resolved, "band4"), "sigmaValue") = Num("3")
        /\ GetField(BandOf(resolved, "band3"), "color") = Str(<<"#ffd23f">>)
        /\ GetField(BandOf(resolved, "band4"), "color") = Str(<<"#ee4266">>)
        /\ BandOf(resolved, "mean") = BandOf(defaultStatisticalBandConfig, "mean")
        /\ GetField(resolved, "useVwapStyle") = Bool(FALSE)

\* Such a configuration, stored with useVwapStyle true, has been loaded.
C16_Witness ==
    /\ Loaded
    /\ OnlySigma1AndSigma2(parsedConfig)
    /\ GetField(parsedConfig, "useVwapStyle") = Bool(TRUE)
    /\ GetField(BandOf(resolved, "band1"), "color") = Str(<<"#111111">>)

\* The step is a load: it begins with getJsonItem.
LoadStep == storageCalls' # <<>> /\ Head(storageCalls').fn = "getJsonItem"

\* C17: a load that takes the old-format path or the missing-field path
\* saves once, and what it saves is what it returns; a load that takes any
\* other path saves nothing; and the load that follows a load that saved
\* saves nothing.
C17_SavesOnceWhenMigrating ==
    /\ [](Loaded =>
            IF ConfigPath(parsedConfig) \in {"oldFormat", "missingField"}
            THEN saved = <<resolved>>
            ELSE saved = <<>>)
    /\ [][(Loaded /\ saved # <<>> /\ storage = resolved /\ LoadStep) => saved' = <<>>]_vars

\* A load that saved has been followed by a load that did not: band1 has
\* the colour that only the migration of a stored sigma1 gives it.
C17_Witness ==
    /\ Loaded
    /\ parsedConfig = resolved
    /\ saved = <<>>
    /\ storage = resolved
    /\ GetField(BandOf(resolved, "band1"), "color") = Str(<<"#111111">>)

\* C18: after a load on the missing-field path, a band that was stored as
\* an object has every stored field with its stored value and every other
\* field of the default band with the default value, and a band that was
\* not stored is the default band.
C18_PresentFieldsWin ==
    (Loaded /\ ConfigPath(parsedConfig) = "missingField") =>
        \A key \in Range(bandKeys) :
            LET stored == BandOf(parsedConfig, key)
                default == BandOf(defaultStatisticalBandConfig, key)
                band == BandOf(resolved, key)
            IN  /\ stored.t = "object" =>
                    /\ band.t = "object"
                    /\ \A f \in DOMAIN stored.v : GetField(band, f) = stored.v[f]
                    /\ \A f \in DOMAIN default.v \ DOMAIN stored.v :
                            GetField(band, f) = default.v[f]
                /\ stored = Undefined => band = default

\* A band stored with enabled false and opacity 0 and no sigmaValue has been
\* loaded, beside a band that was not stored.
C18_Witness ==
    /\ Loaded
    /\ ConfigPath(parsedConfig) = "missingField"
    /\ BandOf(parsedConfig, "band1")
            = Obj([enabled |-> Bool(FALSE), opacity |-> Num("0")])
    /\ GetField(BandOf(resolved, "band1"), "opacity") = Num("0")
    /\ GetField(BandOf(resolved, "band1"), "enabled") = Bool(FALSE)
    /\ GetField(BandOf(resolved, "band1"), "sigmaValue") = Num("1")
    /\ BandOf(parsedConfig, "band2") = Undefined

----------------------------------------------------------------------------
(* Observations of the band calculator *)

\* The points of the visible instruments, in order, without their symbols.
VisiblePoints(args) ==
    LET own == SelectSeq(args.data, LAMBDA d : d.CA \in Range(args.visibleSymbols))
    IN  [i \in 1..Len(own) |->
            [CA |-> own[i].CA, timestamp |-> own[i].timestamp, open |-> own[i].open,
             high |-> own[i].high, low |-> own[i].low, close |-> own[i].close]]

IsCumulative(args) == args.mode.config.useVwapStyle

\* C19: the result of a call is empty when the points are empty, when no
\* instrument is visible, and when no point is of a visible instrument, in
\* snapshot mode and in cumulative mode.
C19_EmptyWithoutVisiblePoints ==
    (\/ Len(bandArgs.data) = 0
     \/ Len(bandArgs.visibleSymbols) = 0
     \/ VisiblePoints(bandArgs) = <<>>)
        => bandOutput = <<>>

\* A call in cumulative mode with points and a visible instrument, none of
\* the points being of that instrument, has returned nothing.
C19_Witness ==
    /\ IsCumulative(bandArgs)
    /\ Len(bandArgs.data) = MaxBandPoints
    /\ Len(bandArgs.visibleSymbols) > 0
    /\ VisiblePoints(bandArgs) = <<>>
    /\ bandOutput = <<>>

\* C20: a call whose visible instruments and mode are those of the call
\* before it, and whose points of visible instruments are the same in all
\* but the symbol, returns what the call before it returned.
C20_OnlyVisiblePointsCount ==
    [][(/\ bandArgs'.visibleSymbols = bandArgs.visibleSymbols
        /\ bandArgs'.mode = bandArgs.mode
        /\ VisiblePoints(bandArgs') = VisiblePoints(bandArgs))
            => bandOutput' = bandOutput]_vars

\* Band points have been returned for a visible instrument whose point
\* carries the symbol of the other instrument, beside a point of an
\* instrument that is not visible.
C20_Witness ==
    /\ bandOutput # <<>>
    /\ \E i, j \in 1..Len(bandArgs.data) :
            /\ bandArgs.data[i].CA \in Range(bandArgs.visibleSymbols)
            /\ bandArgs.data[i].symbol # SymbolOf(bandArgs.data[i].CA)
            /\ bandArgs.data[j].CA \notin Range(bandArgs.visibleSymbols)

----------------------------------------------------------------------------
(* Observations of the band values *)

\* The closes of the points of visible instruments at time t, in the order
\* of the points.
ClosesAt(args, t) ==
    LET own == SelectSeq(args.data,
                   LAMBDA d : Includes(args.visibleSymbols, d.CA) /\ d.timestamp = t)
    IN  [i \in 1..Len(own) |-> Number(own[i].close)]

\* x[1] + ... + x[n], added from the left.
RECURSIVE Total(_, _)
Total(xs, n) == IF n = 0 THEN <<0, 1>> ELSE FAdd(Total(xs, n - 1), xs[n])

\* The arithmetic average of xs.
Average(xs) == FDiv(Total(xs, Len(xs)), Number(Len(xs)))

\* The population standard deviation of xs about m: the square root of the
\* sum of the squared distances from m over the number of values, and 0 for
\* a single value.
PopulationDeviation(xs, m) ==
    IF Len(xs) = 1 THEN <<0, 1>>
    ELSE LET squares == [i \in 1..Len(xs) |-> FMul(FSub(xs[i], m), FSub(xs[i], m))]
         IN  FSqrt(FDiv(Total(squares, Len(xs)), Number(Len(xs))))

PositiveKey == [band1 |-> "band1", band2 |-> "band2", band3 |-> "band3", band4 |-> "band4"]

NegativeKey ==
    [band1 |-> "band1Neg", band2 |-> "band2Neg", band3 |-> "band3Neg", band4 |-> "band4Neg"]

BandNames == {"band1", "band2", "band3", "band4"}

\* The band point bp lies about the mean m at the deviation dev: each
\* band's values are m plus and minus dev times the band's sigma value.
LiesAbout(bp, m, dev, config) ==
    /\ bp.mean = m
    /\ \A b \in BandNames :
        /\ bp[PositiveKey[b]] = FAdd(m, FMul(dev, config.levels[b].sigmaValue))
        /\ bp[NegativeKey[b]] = FSub(m, FMul(dev, config.levels[b].sigmaValue))

\* C21: in snapshot mode every band point's mean is the arithmetic average
\* of the closes of the visible instruments at its timestamp, and its band
\* values are the mean plus and minus the population standard deviation of
\* those closes times the band's sigma value; closes of 10 and 12 at time 1
\* give a mean of 11 and, at a sigma value of 1, band values of 12 and 10.
C21_SnapshotMeanAndDeviation ==
    ~IsCumulative(bandArgs) =>
        \A i \in 1..Len(bandOutput) :
            LET bp == bandOutput[i]
                closes == ClosesAt(bandArgs, bp.timestamp)
            IN  /\ closes # <<>>
                /\ LiesAbout(bp, Average(closes),
                             PopulationDeviation(closes, Average(closes)),
                             bandArgs.mode.config)
                /\ (/\ Range(closes) = {<<10, 1>>, <<12, 1>>}
                    /\ Len(closes) = 2
                    /\ bp.timestamp = 1
                    /\ bandArgs.mode.config.levels.band1.sigmaValue = <<1, 1>>)
                        => /\ bp.mean = <<11, 1>>
                           /\ PopulationDeviation(closes, bp.mean) = <<1, 1>>
                           /\ bp.band1 = <<12, 1>>
                           /\ bp.band1Neg = <<10, 1>>

\* A and B close at 10 and 12 at time 1, beside a hidden instrument's
\* point, and a band point of time 1 has been returned with the shipped
\* sigma values.
C21_Witness ==
    /\ ~IsCumulative(bandArgs)
    /\ bandArgs.mode.config.levels.band1.sigmaValue = <<1, 1>>
    /\ Range(ClosesAt(bandArgs, 1)) = {<<10, 1>>, <<12, 1>>}
    /\ \E j \in 1..Len(bandArgs.data) :
            ~Includes(bandArgs.visibleSymbols, bandArgs.data[j].CA)
    /\ \E i \in 1..Len(bandOutput) :
            bandOutput[i].timestamp = 1 /\ bandOutput[i].band2 = <<13, 1>>

\* The mean and the eight band values of bp are all p.
AllEqual(bp, p) ==
    /\ bp.mean = p
    /\ \A b \in BandNames : bp[PositiveKey[b]] = p /\ bp[NegativeKey[b]] = p

\* C22: in snapshot mode, when the visible instruments at a timestamp all
\* closed at the same price p, the deviation is 0 and the mean and all eight
\* band values of the timestamp's band point are p, whatever the sigma
\* values.
C22_IdenticalClosesCollapse ==
    ~IsCumulative(bandArgs) =>
        \A i \in 1..Len(bandOutput) :
            LET closes == ClosesAt(bandArgs, bandOutput[i].timestamp)
            IN  (\A j \in 1..Len(closes) : closes[j] = closes[1])
                    => /\ StandardDeviation(closes, bandOutput[i].mean) = <<0, 1>>
                       /\ AllEqual(bandOutput[i], closes[1])

\* The time of every point of a visible instrument.
VisibleTimes(args) ==
    {d.timestamp : d \in {e \in Range(args.data) : Includes(args.visibleSymbols, e.CA)}}

\* The points of visible instruments at time t, in order.
VisiblePointsAt(args, t) == SelectSeq(VisiblePoints(args), LAMBDA d : d.timestamp = t)

\* The band points of time t in a result.
BandPointsAt(output, t) == SelectSeq(output, LAMBDA bp : bp.timestamp = t)

\* C23: in snapshot mode the result of a call holds one band point for each
\* time at which a visible instrument has a point, in strictly ascending
\* order of time whatever the order of the points, and the band point of a
\* time is the one the call before returned when the points of that time
\* are the same in both calls.
C23_OnePointPerTimestamp ==
    [][~IsCumulative(bandArgs') =>
        /\ \A i, j \in 1..Len(bandOutput') :
                i < j => bandOutput'[i].timestamp < bandOutput'[j].timestamp
        /\ {bandOutput'[i].timestamp : i \in 1..Len(bandOutput')} = VisibleTimes(bandArgs')
        /\ \A t \in VisibleTimes(bandArgs') :
                (/\ ~IsCumulative(bandArgs)
                 /\ bandArgs'.mode.config = bandArgs.mode.config
                 /\ VisiblePointsAt(bandArgs', t) = VisiblePointsAt(bandArgs, t))
                    => BandPointsAt(bandOutput', t) = BandPointsAt(bandOutput, t)]_vars

\* The point of time 2 is passed before two points of time 1, and the
\* result holds the band point of time 1 before that of time 2.
C23_Witness ==
    /\ ~IsCumulative(bandArgs)
    /\ Len(bandArgs.data) = 3
    /\ bandArgs.data[1].timestamp = 2
    /\ Len(VisiblePointsAt(bandArgs, 1)) = 2
    /\ Len(bandOutput) = 2
    /\ bandOutput[1].timestamp = 1
    /\ bandOutput[2].timestamp = 2

\* The times of a result, in order.
TimesOf(output) == [i \in 1..Len(output) |-> output[i].timestamp]

\* ts runs over exactly the times of S, in strictly ascending order.
AscendsOver(ts, S) ==
    /\ Range(ts) = S
    /\ \A i, j \in 1..Len(ts) : i < j => ts[i] < ts[j]

\* C24: in cumulative mode without an anchor the result holds a band point
\* for every time at which a visible instrument has a point, from the first
\* on; with the anchor at the middle of the stable range from 0 to 100 the
\* first band point is that of the first such time at or after 50.
C24_AnchorChoosesFirstGroup ==
    IsCumulative(bandArgs) =>
        /\ bandArgs.mode.sliderPosition = 0
                => AscendsOver(TimesOf(bandOutput), VisibleTimes(bandArgs))
        /\ (/\ bandArgs.mode.sliderPosition = 50
            /\ bandArgs.mode.stableTimestampRange = [minTimestamp |-> 0, maxTimestamp |-> 100])
                => LET kept == {t \in VisibleTimes(bandArgs) : t >= 50}
                   IN  IF kept = {} THEN bandOutput = <<>>
                       ELSE /\ bandOutput # <<>>
                            /\ bandOutput[1].timestamp \in kept
                            /\ \A t \in kept : bandOutput[1].timestamp <= t

\* With points at times -40, 50 and 60 and the anchor at the middle of 0 to
\* 100, the first band point returned is that of time 50.
C24_Witness ==
    /\ IsCumulative(bandArgs)
    /\ bandArgs.mode.sliderPosition = 50
    /\ bandArgs.mode.stableTimestampRange = [minTimestamp |-> 0, maxTimestamp |-> 100]
    /\ VisibleTimes(bandArgs) = {0 - 40, 50, 60}
    /\ bandOutput # <<>>
    /\ bandOutput[1].timestamp = 50

\* A rebase point is set: the slider is above 0 and a stable timestamp range
\* is passed.
RebaseIsSet(args) ==
    args.mode.sliderPosition > 0 /\ args.mode.stableTimestampRange # NoRange

\* t lies at or after min + (max - min) * (slider / 100) of the stable
\* timestamp range.
AtOrAfterRebase(args, t) ==
    LET range == args.mode.stableTimestampRange
    IN  (t - range.minTimestamp) * 100
            >= (range.maxTimestamp - range.minTimestamp) * args.mode.sliderPosition

\* C25: in cumulative mode with a rebase point set, the result holds the
\* band points of exactly the times, among those of the visible points, at
\* or after minTimestamp + (maxTimestamp - minTimestamp) * anchor of the
\* stable timestamp range passed by the caller: earlier groups are
\* discarded, and no band point is earlier than the rebase timestamp, for
\* every stable range, one whose rebase timestamp is 0 included.
C25_RebaseDiscardsEarlierGroups ==
    (IsCumulative(bandArgs) /\ RebaseIsSet(bandArgs)) =>
        AscendsOver(TimesOf(bandOutput),
                    {t \in VisibleTimes(bandArgs) : AtOrAfterRebase(bandArgs, t)})

\* (high + low + close) / 3 of the points of visible instruments at time t,
\* in the order of the points.
TypicalPricesAt(args, t) ==
    LET own == VisiblePointsAt(args, t)
    IN  [i \in 1..Len(own) |->
            FDiv(FAdd(FAdd(Number(own[i].high), Number(own[i].low)), Number(own[i].close)),
                 Number(3))]

\* The group typical prices of the first k times of a result.
GroupTypicalPrices(args, output, k) ==
    [j \in 1..k |-> Average(TypicalPricesAt(args, output[j].timestamp))]

\* C26: in cumulative mode the band points are in ascending order of time;
\* the mean of the k-th is the average of the group typical prices of the
\* first k times (the group typical price being the average, over the
\* visible instruments with a point at the time, of (high + low + close) / 3)
\* and its band values lie at the population standard deviation of those k
\* values times the sigma value; the first band point has all its band
\* values on its mean.
C26_CumulativeMeanAndDeviation ==
    IsCumulative(bandArgs) =>
        /\ \A i, j \in 1..Len(bandOutput) :
                i < j => bandOutput[i].timestamp < bandOutput[j].timestamp
        /\ \A k \in 1..Len(bandOutput) :
                LET tps == GroupTypicalPrices(bandArgs, bandOutput, k)
                IN  /\ TypicalPricesAt(bandArgs, bandOutput[k].timestamp) # <<>>
                    /\ LiesAbout(bandOutput[k], Average(tps),
                                 PopulationDeviation(tps, Average(tps)),
                                 bandArgs.mode.config)
        /\ bandOutput # <<>> => AllEqual(bandOutput[1], bandOutput[1].mean)

\* Three band points have been returned, the second for a time at which two
\* instruments are visible, passed in another order than that of time.
C26_Witness ==
    /\ IsCumulative(bandArgs)
    /\ Len(bandOutput) = 3
    /\ Len(TypicalPricesAt(bandArgs, bandOutput[2].timestamp)) = 2
    /\ bandArgs.data[1].timestamp = 60
    /\ bandOutput[3].band1 # bandOutput[3].mean

\* A band configuration without its enabled flags.
WithoutFlags(config) ==
    [useVwapStyle |-> config.useVwapStyle,
     showFilledAreas |-> config.showFilledAreas,
     levels |-> [b \in DOMAIN config.levels |->
                    [f \in DOMAIN config.levels[b] \ {"enabled"} |-> config.levels[b][f]]]]

\* Two calls pass the same points, visible instruments, slider position and
\* stable timestamp range, and configurations that differ in enabled flags
\* at most.
SameButFlags(args1, args2) ==
    /\ args1.data = args2.data
    /\ args1.visibleSymbols = args2.visibleSymbols
    /\ args1.mode.sliderPosition = args2.mode.sliderPosition
    /\ args1.mode.stableTimestampRange = args2.mode.stableTimestampRange
    /\ WithoutFlags(args1.mode.config) = WithoutFlags(args2.mode.config)

\* C27: a call that differs from the call before it only in the enabled
\* flags of the configuration, of its levels or of the whole, returns the
\* same band points, and every band point of a result has a value for each
\* of band1 to band4, positive and negative.
C27_EnabledFlagsIgnored ==
    [][/\ SameButFlags(bandArgs, bandArgs') => bandOutput' = bandOutput
       /\ \A i \in 1..Len(bandOutput') :
            \A b \in BandNames :
                /\ {PositiveKey[b], NegativeKey[b]} \subseteq DOMAIN bandOutput'[i]
                /\ bandOutput'[i][PositiveKey[b]] \in Seq(Int)
                /\ bandOutput'[i][NegativeKey[b]] \in Seq(Int)]_vars

\* Band points off their mean have been returned under a configuration
\* whose band2, band3 and band4 are switched off.
C27_Witness ==
    /\ bandArgs.mode.config.levels = BandLevels
    /\ \E i \in 1..Len(bandOutput) :
            /\ bandOutput[i].band2 # bandOutput[i].mean
            /\ bandOutput[i].band4Neg # bandOutput[i].mean

\* The values x - y and y - z are the same number.
SameDistance(x, y, z) == x[1] * y[2] * z[2] + z[1] * x[2] * y[2] = 2 * y[1] * x[2] * z[2]

\* The deviation of the k-th band point of a result: the population
\* standard deviation of the closes of its time in snapshot mode, and of
\* the group typical prices so far in cumulative mode, about its mean.
DeviationOf(args, output, k) ==
    IF IsCumulative(args)
    THEN PopulationDeviation(GroupTypicalPrices(args, output, k), output[k].mean)
    ELSE PopulationDeviation(ClosesAt(args, output[k].timestamp), output[k].mean)

\* C28: in both modes, for every band point and each of band1 to band4, the
\* positive value lies as far above the mean as the negative value lies
\* below it, that distance is the deviation times the band's sigma value,
\* and a band whose sigma value is 0 has both values on the mean.
C28_BandsSymmetricAboutMean ==
    \A k \in 1..Len(bandOutput) :
        \A b \in BandNames :
            LET bp == bandOutput[k]
                sigma == bandArgs.mode.config.levels[b].sigmaValue
            IN  /\ SameDistance(bp[PositiveKey[b]], bp.mean, bp[NegativeKey[b]])
                /\ FSub(bp[PositiveKey[b]], bp.mean)
                        = FMul(DeviationOf(bandArgs, bandOutput, k), sigma)
                /\ sigma = <<0, 1>>
                        => bp[PositiveKey[b]] = bp.mean /\ bp[NegativeKey[b]] = bp.mean

----------------------------------------------------------------------------
(* Observations of the registry keys *)

\* The instruments the chart plots.
PlottedInstruments == {d.CA : d \in Range(filteredData(Props))}

\* The keys under which the data effect registers the primary series of
\* instrument ca.
PrimaryKeysOf(ca) ==
    {TokenKey(d) : d \in {e \in Range(filteredData(Props)) : e.CA = ca}}

\* The keys under which the data effect registers the band series.
BandKeys == {BandKey(allBands(statisticalBandConfig)[i].key) : i \in 1..9}

\* C29: the registry keys are free of collisions: two instruments never
\* share a primary key, an instrument never has more than one primary key,
\* a primary key is never a band key, and the nine bands have nine keys;
\* for every identity and symbol, those that hold a colon and an identity
\* under two symbols included.
C29_KeysCollisionFree ==
    (phase = "mounted" /\ chartRef) =>
        /\ \A ca1, ca2 \in PlottedInstruments :
                ca1 # ca2 => PrimaryKeysOf(ca1) \cap PrimaryKeysOf(ca2) = {}
        /\ \A ca \in PlottedInstruments :
                Cardinality(PrimaryKeysOf(ca) \cap Range(MapKeys(seriesRefs))) <= 1
        /\ \A ca \in PlottedInstruments : PrimaryKeysOf(ca) \cap BandKeys = {}
        /\ Cardinality(BandKeys) = 9

\* The series objects a registry refers to and the chart no longer holds.
Gone == Registered \ DOMAIN chart

\* The reaction that has just run removes the registry entry of h: it has
\* called removeSeries on h, or it was the disabled branch of the indicator
\* lifecycle, which looks for the series in the chart first.
RemovalOf(h) ==
    \/ [op |-> "removeSeries", h |-> h] \in Range(calls')
    \/ /\ h \in Handles(tokenIndicatorSeriesRefs)
       /\ lastReaction' = "proximityMode"
       /\ proximityMode' = "disabled"

\* C30: a reaction that removes a registry entry whose series the chart no
\* longer holds ends without an error, and no registry refers to the
\* series afterwards; for the clearing of seriesRefs, the removal of the
\* band series, and the removal of indicator series in the enabled and the
\* disabled branch.
C30_RemovingGoneSeriesIsSilent ==
    [][\A h \in Gone :
        RemovalOf(h) =>
            /\ ~error'
            /\ h \notin Handles(seriesRefs') \cup Handles(tokenIndicatorSeriesRefs')]_vars

----------------------------------------------------------------------------
(* Observations of the band series, the markers and the plotted data *)

\* The entries of seriesRefs that plot bands.
BandEntries(reg) == SelectSeq(reg, LAMBDA e : StartsWithBand(e.k))

\* C31: a reaction to new points, to a move of the anchor slider or to a
\* change of the band configuration that finds the bands switched on and
\* leaves them switched on with points to plot keeps every band entry of
\* seriesRefs under its key with its handle, and neither removes nor creates
\* a band series.
C31_BandSeriesReused ==
    [][(/\ lastReaction' \in {"data", "slider", "bandConfig"}
        /\ phase' = "mounted"
        /\ statisticalBandConfig.enabled
        /\ statisticalBandConfig'.enabled
        /\ BandEntries(seriesRefs') # <<>>)
        => /\ \A e \in Range(BandEntries(seriesRefs)) :
                MapHas(seriesRefs', e.k) /\ MapGet(seriesRefs', e.k) = e.v
           /\ \A c \in Range(calls') :
                c.op \in {"addSeries", "removeSeries"} => ~IsBandHandle(c.h)]_vars
----------------------------------------------------------------------------
(* Observations of the storage keys *)

\* The keys that the last step handed to localStorage itself; the keys under
\* which getJsonItem and setJsonItem store a name are chosen by the wrapper.
DirectKeys ==
    {c.key : c \in {x \in Range(storageCalls) :
                        x.fn \in {"localStorage.getItem", "localStorage.setItem"}}}

\* C32: every key that is read from or written to the storage starts with
\* the project prefix "LWtest".
C32_StorageKeysPrefixed ==
    \A key \in DirectKeys : Head(key) = "LWtest"

----------------------------------------------------------------------------
(* Observations of the markers *)

\* The timestamps of the proximity data at which the condition of the
\* instrument tokenCA fires.
FiringTimes(tokenCA) ==
    {proximityIndicatorData[i].timestamp : i \in
        {j \in 1..Len(proximityIndicatorData) :
            \E e \in Range(proximityIndicatorData[j].tokenProximity) :
                /\ e.k = tokenCA
                /\ e.v.proximityValue = 1
                /\ Len(e.v.triggeredLevels) > 0}}

\* The timestamps of the markers that the series h carries.
MarkerTimes(h) == {chart[h].markers[i].time : i \in 1..Len(chart[h].markers)}

\* C33: while indicator mode is enabled, every indicator series carries
\* markers at exactly the timestamps at which the proximity condition of its
\* instrument fires in the current proximity data, a series created for an
\* instrument that has just become visible included.
C33_MarkersFollowProximity ==
    (phase = "mounted" /\ isEnabled(Props))
        => \A e \in Range(tokenIndicatorSeriesRefs) :
                e.v \in DOMAIN chart => MarkerTimes(e.v) = FiringTimes(e.k)

----------------------------------------------------------------------------
(* Observations of the legacy migration *)

\* The bands of the new format and the levels of the old one they come from.
LegacyNames ==
    { <<"band1", "sigma1">>, <<"band2", "sigma2">>, <<"band3", "sigma2_5">>,
      <<"band4", "sigma3">> }

LegacyLevel(config, name) == GetField(LevelsOf(config), name)

\* C34: a load on the old-format path returns showFilledAreas true and every
\* band enabled whatever the stored flags were, gives a band whose stored
\* opacity was 0 the opacity 0.3, and returns enabled false when enabled was
\* stored as false.
C34_FalsyLegacyFieldsDefaulted ==
    (Loaded /\ ConfigPath(parsedConfig) = "oldFormat") =>
        /\ GetField(resolved, "showFilledAreas") = Bool(TRUE)
        /\ \A n \in LegacyNames :
            /\ GetField(BandOf(resolved, n[1]), "enabled") = Bool(TRUE)
            /\ OptField(LegacyLevel(parsedConfig, n[2]), "opacity") = Num("0")
                => GetField(BandOf(resolved, n[1]), "opacity") = Num("0.3")
        /\ GetField(parsedConfig, "enabled") = Bool(FALSE)
            => GetField(resolved, "enabled") = Bool(FALSE)

\* A configuration of the old format has been loaded that was stored with
\* enabled false, showFilledAreas false, and sigma1 disabled at opacity 0.
C34_Witness ==
    /\ Loaded
    /\ ConfigPath(parsedConfig) = "oldFormat"
    /\ GetField(parsedConfig, "enabled") = Bool(FALSE)
    /\ GetField(parsedConfig, "showFilledAreas") = Bool(FALSE)
    /\ GetField(LegacyLevel(parsedConfig, "sigma1"), "enabled") = Bool(FALSE)
    /\ GetField(LegacyLevel(parsedConfig, "sigma1"), "opacity") = Num("0")

----------------------------------------------------------------------------
(* Observations of the plotted data *)

\* The points of filteredData that the data effect groups under key.
TokenPoints(key) == SelectSeq(filteredData(Props), LAMBDA d : TokenKey(d) = key)

\* The last of the points ps that has timestamp t.
LastAt(ps, t) ==
    ps[CHOOSE i \in 1..Len(ps) :
            /\ ps[i].timestamp = t
            /\ \A j \in 1..Len(ps) : ps[j].timestamp = t => j <= i]

\* The closing price that an item of a line or of a candlestick series shows.
ClosingOf(item) == IF "value" \in DOMAIN item THEN item.value ELSE item.close

\* C35: the data of every primary series runs over the timestamps of its
\* instrument's points in strictly ascending order, one item per timestamp,
\* and the item of a timestamp shows the last of the input points that have
\* that timestamp.
C35_PrimaryDataDeduplicated ==
    (phase = "mounted" /\ chartRef) =>
        /\ \A d \in Range(filteredData(Props)) : MapHas(seriesRefs, TokenKey(d))
        /\ \A e \in Range(PrimaryEntries(seriesRefs)) :
            LET shown == chart[e.v].data
                pts == TokenPoints(e.k)
            IN  /\ \A i, j \in 1..Len(shown) : i < j => shown[i].time < shown[j].time
                /\ {shown[i].time : i \in 1..Len(shown)}
                      = {pts[i].timestamp : i \in 1..Len(pts)}
                /\ \A i \in 1..Len(shown) :
                      ClosingOf(shown[i]) = LastAt(pts, shown[i].time).close

\* New data has arrived in which A's point at timestamp 2 comes before its
\* point at timestamp 1 and is repeated with another close: A's series shows
\* two items.
C35_Witness ==
    /\ phase = "mounted" /\ chartRef /\ lastReaction = "data"
    /\ \E e \in Range(PrimaryEntries(seriesRefs)) :
        LET pts == TokenPoints(e.k)
        IN  /\ Len(pts) = 3
            /\ pts[1].timestamp > pts[2].timestamp
            /\ pts[1].timestamp = pts[3].timestamp
            /\ pts[1].close # pts[3].close
            /\ Len(chart[e.v].data) = 2

----------------------------------------------------------------------------
(* Observations of the band keys *)

\* The band points that the data effect computes from the current props,
\* none when it does not call the calculator.
CurrentBandPoints ==
    IF statisticalBandConfig.enabled /\ Len(filteredData(Props)) > 0
    THEN BandPointsOfProps[data, visibleTokens, statisticalBandConfig, sliderPosition]
    ELSE <<>>

\* The keys of the bands whose own level is enabled.
EnabledBandKeys ==
    {BandKey(b.key) : b \in {x \in Range(allBands(statisticalBandConfig)) : x.config.enabled}}

\* The keys of seriesRefs that are keys of bands.
RegisteredBandKeys == Range(MapKeys(seriesRefs)) \cap BandKeys

\* The band series that the chart holds.
AttachedBandSeries == {h \in DOMAIN chart : h[1] \in BandKeys}

\* C36: seriesRefs holds a band key only while the band configuration is
\* enabled and only for a level that is enabled itself, the positive and the
\* negative key of every enabled level and the key of the enabled mean; when
\* the configuration is disabled or the calculation gives no points it holds
\* no band key and the chart holds no band series.
C36_BandKeysFollowFlags ==
    /\ RegisteredBandKeys # {} => statisticalBandConfig.enabled
    /\ RegisteredBandKeys \subseteq EnabledBandKeys
    /\ (phase = "mounted" /\ chartRef /\ CurrentBandPoints # <<>>)
            => RegisteredBandKeys = EnabledBandKeys
    /\ (~statisticalBandConfig.enabled \/ CurrentBandPoints = <<>>)
            => RegisteredBandKeys = {} /\ AttachedBandSeries = {}
    /\ AttachedBandSeries = {MapGet(seriesRefs, k) : k \in RegisteredBandKeys}

\* The bands are on over visible data: both keys of band1 and the key of the
\* mean are registered, and no key of band2, which is disabled.
C36_Witness ==
    /\ phase = "mounted" /\ chartRef
    /\ statisticalBandConfig.enabled
    /\ CurrentBandPoints # <<>>
    /\ {BandKey("band1_pos"), BandKey("band1_neg"), BandKey("mean")} \subseteq RegisteredBandKeys
    /\ BandKey("band2_pos") \notin RegisteredBandKeys
    /\ ~statisticalBandConfig.levels.band2.enabled

----------------------------------------------------------------------------
(* Observations of the empty chart *)

\* There is nothing to plot: no data, or no instrument is visible.
NothingToPlot == Len(data) = 0 \/ Len(visibleTokens) = 0

\* The component renders the message in place of the chart container.
ShowsPlaceholder == Len(data) = 0 \/ Len(filteredData(Props)) = 0

\* The series of instruments and of bands that the chart holds.
PriceSeries == {h \in DOMAIN chart : ~IsIndicatorHandle(h)}

\* C37: when there is no data or no instrument is visible, the reaction ends
\* without an error, seriesRefs is empty, the chart holds no series of an
\* instrument or of a band, and the component shows its placeholder.
C37_EmptyInputClearsSeries ==
    NothingToPlot =>
        /\ ~error
        /\ seriesRefs = <<>>
        /\ PriceSeries = {}
        /\ ShowsPlaceholder

\* The last instrument has just been hidden, or the data has just become
\* empty, while the series of an instrument and of a band were attached: the
\* reaction has removed both.
C37_Witness ==
    /\ phase = "mounted" /\ chartRef /\ NothingToPlot
    /\ lastReaction \in {"data", "visibility"}
    /\ \E c \in Range(calls) : c.op = "removeSeries" /\ IsBandHandle(c.h)
    /\ \E c \in Range(calls) : c.op = "removeSeries" /\ IsPrimaryHandle(c.h)

----------------------------------------------------------------------------
(* Observations of the two registries together *)

\* The keys of the two registries under which h is held.
KeysHolding(h) ==
    {<<"seriesRefs", e.k>> : e \in {x \in Range(seriesRefs) : x.v = h}}
        \cup {<<"tokenIndicatorSeriesRefs", e.k>> :
                e \in {x \in Range(tokenIndicatorSeriesRefs) : x.v = h}}

\* C38: the series attached to the chart are exactly the series that
\* seriesRefs and tokenIndicatorSeriesRefs hold, each under exactly one key,
\* and neither registry holds a series that the chart no longer holds.
C38_NoSeriesLeaked ==
    /\ DOMAIN chart = Handles(seriesRefs) \cup Handles(tokenIndicatorSeriesRefs)
    /\ \A h \in DOMAIN chart : Cardinality(KeysHolding(h)) = 1

----------------------------------------------------------------------------
(* Observations of the indicator and the marker map *)

KeySet(reg) == Range(MapKeys(reg))

\* C39: an instrument is a key of tokenIndicatorSeriesRefs exactly when it
\* is a key of tokenMarkersRefs, in every state, those after a reaction in
\* which the creation of a series, the creation of its markers or the
\* removal of a series failed included.
C39_IndicatorAndMarkerKeysAgree ==
    KeySet(tokenIndicatorSeriesRefs) = KeySet(tokenMarkersRefs)
====
